---- MODULE Spec2Model ----
(***************************************************************************)
(* Mock Study session state machine of backend/core/views.py               *)
(* (MockStudyViewSet) with the grading helper of mock_study_service.py.    *)
(* One action per HTTP handler; the generator (an external LLM call) is a  *)
(* nondeterministic choice between failure (None) and a parsed question.   *)
(***************************************************************************)
EXTENDS Integers, Sequences, FiniteSets, TLC

(***************************************************************************)
(* Python float arithmetic.  The handlers compute percentages as           *)
(* int((a / b) * 100): a true division of two ints (IEEE-754 binary64,     *)
(* round-to-nearest-even), a binary64 multiplication by 100.0, and a       *)
(* truncation.  A float is [m |-> 53 bits, most significant first,         *)
(* e |-> exponent of the leading bit]; zero is the float with m = <<>>.    *)
(***************************************************************************)
MantissaBits == 53

\* 2^n for 0 <= n <= 30, by squaring.
RECURSIVE Pow2(_)
Pow2(n) ==
    IF n = 0 THEN 1
    ELSE LET h == Pow2(n \div 2) IN IF n % 2 = 0 THEN h * h ELSE 2 * h * h

\* 2^n mod t for any n >= 0 and 0 < t < 2^15, by squaring.
RECURSIVE Pow2Mod(_, _)
Pow2Mod(n, t) ==
    IF n = 0 THEN 1 % t
    ELSE LET h == Pow2Mod(n \div 2, t)
         IN  IF n % 2 = 0 THEN (h * h) % t ELSE (2 * ((h * h) % t)) % t

\* The w low binary digits of n, most significant first.
IntBitsW(n, w) == [i \in 1..w |-> (n \div Pow2(w - i)) % 2]

\* Number of binary digits of n (0 for 0), n < 2^30.
BitLen(n) == CHOOSE w \in 0..30 : n < Pow2(w) /\ (w = 0 \/ Pow2(w - 1) <= n)

\* The binary digits of n without leading zeros.
IntBits(n) == IntBitsW(n, BitLen(n))

\* The value of at most 30 binary digits, most significant first.
RECURSIVE BitsToInt(_)
BitsToInt(b) ==
    IF b = <<>> THEN 0
    ELSE IF Len(b) = 1 THEN b[1]
    ELSE LET h == Len(b) \div 2
         IN  BitsToInt(SubSeq(b, 1, h)) * Pow2(Len(b) - h)
             + BitsToInt(SubSeq(b, h + 1, Len(b)))

\* The first n binary digits of r / t after the point (0 <= r < t).
DivBits(r, t, n) ==
    [i \in 1..n |-> (2 * ((r * Pow2Mod(i - 1, t)) % t)) \div t]

\* Whether r / t has a nonzero digit after its first n digits.
DivRem(r, t, n) == (r * Pow2Mod(n, t)) % t

\* Number of zero digits of r / t before its first one digit (0 < r < t).
LeadingZeros(r, t) ==
    CHOOSE z \in 0..30 : r * Pow2(z + 1) >= t /\ r * Pow2(z) < t

\* b + 1 as Len(b) + 1 bits (the first one is the carry out).
IncBits(b) ==
    LET n     == Len(b)
        zeros == {i \in 1..n : b[i] = 0}
    IN  IF zeros = {} THEN <<1>> \o [i \in 1..n |-> 0]
        ELSE LET k == CHOOSE i \in zeros : \A j \in zeros : j <= i
             IN  <<0>> \o [i \in 1..n |->
                              IF i < k THEN b[i] ELSE IF i = k THEN 1 ELSE 0]

\* Round-to-nearest, ties-to-even, of the digit string `bits` (leading digit
\* one, exponent e, at least 54 digits) followed by a nonzero tail iff sticky.
RoundNearestEven(bits, sticky, e) ==
    LET m     == SubSeq(bits, 1, MantissaBits)
        guard == bits[MantissaBits + 1]
        rest  == \/ sticky
                 \/ \E i \in (MantissaBits + 2)..Len(bits) : bits[i] = 1
        up    == guard = 1 /\ (rest \/ m[MantissaBits] = 1)
        inc   == IncBits(m)
    IN  IF ~up THEN [m |-> m, e |-> e]
        ELSE IF inc[1] = 1
             THEN [m |-> SubSeq(inc, 1, MantissaBits), e |-> e + 1]
             ELSE [m |-> SubSeq(inc, 2, MantissaBits + 1), e |-> e]

FloatZero == [m |-> <<>>, e |-> 0]

\* a / b for ints 0 <= a < 2^30, 0 < b < 2^15 (Python 3 true division).
TrueDiv(a, b) ==
    IF a = 0 THEN FloatZero
    ELSE LET ip == IntBits(a \div b)
             r  == a % b
         IN  IF ip # <<>>
             THEN LET n == MantissaBits + 1 - Len(ip) IN
                  RoundNearestEven(ip \o DivBits(r, b, n),
                                   DivRem(r, b, n) # 0, Len(ip) - 1)
             ELSE LET z  == LeadingZeros(r, b)
                      r1 == r * Pow2(z)
                      n  == MantissaBits + 1
                  IN  RoundNearestEven(DivBits(r1, b, n),
                                       DivRem(r1, b, n) # 0, -(z + 1))

\* The 53-bit mantissa m times k (0 < k < 2^10), as bits: three limbs of
\* 13, 20 and 20 bits multiplied with carry.
MulSmall(m, k) ==
    LET limb == 20
        base == Pow2(limb)
        cut  == MantissaBits - 2 * limb
        lo   == BitsToInt(SubSeq(m, cut + limb + 1, MantissaBits)) * k
        mid  == BitsToInt(SubSeq(m, cut + 1, cut + limb)) * k + lo \div base
        hi   == BitsToInt(SubSeq(m, 1, cut)) * k + mid \div base
    IN  IntBits(hi) \o IntBitsW(mid % base, limb) \o IntBitsW(lo % base, limb)

\* x * k for a float x and an int 0 < k < 2^10 (k converts exactly).
FloatMulInt(x, k) ==
    IF x.m = <<>> THEN FloatZero
    ELSE LET p == MulSmall(x.m, k) \o <<0>>
         IN  RoundNearestEven(p, FALSE, x.e + (Len(p) - 1) - MantissaBits)

\* int(x): truncation toward zero of a float 0 <= x < 2^30.
FloatToInt(x) ==
    IF x.m = <<>> \/ x.e < 0 THEN 0
    ELSE BitsToInt(SubSeq(x.m, 1, x.e + 1))

\* int((a / b) * 100) computed in floats.
FloatPercent(a, b) == FloatToInt(FloatMulInt(TrueDiv(a, b), 100))

\* The values of FloatPercent for the totals start can store, computed once.
PercentTotals == {2, 10, 25, 50, 100, 200}

PercentTable ==
    [b \in PercentTotals |-> [a \in 0..(2 * b) |-> FloatPercent(a, b)]]

\* int((a / b) * 100), views.py:696 and views.py:765.
IntPercent(a, b) ==
    IF b \in DOMAIN PercentTable /\ a \in DOMAIN PercentTable[b]
    THEN PercentTable[b][a] ELSE FloatPercent(a, b)

(***************************************************************************)
(* Python values.                                                          *)
(***************************************************************************)
None == [none |-> TRUE]

EmptyDict == <<>>

\* bool(v) for the values the handlers test: None and {} are falsy.
Truthy(v) == v # None /\ v # EmptyDict

\* dict.get(key, default) on a request body or a parsed JSON object.
Get(d, key, default) == IF key \in DOMAIN d THEN d[key] ELSE default

\* str.upper() on the one-letter (or empty) labels of the model.
UpperNoop(s) == s

Upper(s) ==
    LET up == [c \in {"a", "b", "c", "d"} |->
                 CASE c = "a" -> "A" [] c = "b" -> "B"
                   [] c = "c" -> "C" [] c = "d" -> "D"]
    IN  IF s \in DOMAIN up THEN up[s] ELSE s

(***************************************************************************)
(* Bounds of the exploration.                                              *)
(***************************************************************************)
\* Entries of one session's session_history (submit calls per session).
MaxHistory == 1
\* Requests in flight at the same time.
MaxInflight == 2
\* Highest current_question the exploration advances a session to.
MaxProgress == 2

(***************************************************************************)
(* Users, request bodies and generator outputs.                            *)
(***************************************************************************)
Users == {"alice", "bob"}

\* Users with an account (request.user.is_authenticated); "carol" has an
\* account and no UserProfile row, "anon" is the anonymous user.
Authenticated == Users \cup {"carol"}

\* Everyone who may send a request to a gated action.
Clients == Authenticated \cup {"anon"}

\* Parsed outputs of generate_practice_question (what json.loads returns for
\* a well-formed answer of the provider); None is every failure.
Question1 ==
    [stem |-> "stem1", options |-> <<"A", "B", "C", "D">>,
     correct_label |-> "A", correct_rationale |-> "why1",
     incorrect_rationales |-> [l \in {"B", "C", "D"} |-> "wrong1"],
     topic |-> "sensory"]

Question2 ==
    [stem |-> "stem2", options |-> <<"A", "B", "C", "D">>,
     correct_label |-> "b", correct_rationale |-> "why2",
     incorrect_rationales |-> [l \in {"A", "C", "D"} |-> "wrong2"],
     topic |-> ""]

Questions == {Question1, Question2}

GenOutcomes == Questions \cup {None}

PivotData == [pivot_variable |-> "setting", new_scenario_snippet |-> "snip",
              change_explanation |-> "shift"]

PivotOutcomes == {PivotData, None}

\* Bodies of POST /mock-study/start: mode and total_questions are optional.
StartBodies ==
    {EmptyDict}
    \cup {[total_questions |-> n] : n \in {10, 25, 50, 7}}
    \cup {[mode |-> "practice", total_questions |-> n] : n \in {10, 25, 7}}
    \cup {[mode |-> "practice"], [mode |-> "exam"]}
    \cup {[mode |-> "exam", total_questions |-> 2]}

\* The ids the store hands out, so the session rows ever created: one
\* session is followed from start to completion.  A client may name any of
\* them; an id is unknown until start hands it out and again after start
\* has deleted its row.
SessionIds == {1}

SessionBodies == {[session_id |-> i] : i \in SessionIds}

SubmitBodies ==
    SessionBodies
    \cup {[session_id |-> i, selected_label |-> l] :
            i \in SessionIds, l \in {"a", "B"}}

SaveBodies ==
    SessionBodies
    \cup {[session_id |-> i, highlights |-> <<"h1">>] : i \in SessionIds}

VARIABLES
    sessions,           \* MockStudySession rows: id -> row
    next_id,            \* next primary key the store hands out
    recency,            \* ids ordered by last_accessed, latest first
    userprofile,        \* UserProfile rows: user -> row
    request,            \* the request handled last
    response,           \* its response
    generation_calls,   \* calls to the generation adapter it made
    pending,            \* requests in flight: slot -> request and its locals
    stripe_sessions,    \* the provider's checkout sessions, newest first
    fulfilments,        \* runs of fulfill_order that reached a profile
    library             \* CaseStudy, Question, Distractor and AgentMemory
                        \* rows, in the order of their INSERT

\* What the Mock Study handlers never touch.
payment_vars == <<stripe_sessions, fulfilments, library>>

vars == <<sessions, next_id, recency, userprofile, request, response,
          generation_calls, pending, stripe_sessions, fulfilments, library>>


(***************************************************************************)
(* The store: MockStudySession.objects.                                    *)
(***************************************************************************)
\* A timestamp taken by timezone.now(); only its presence is modelled.
Now == [time |-> "now"]

\* MockStudySession.objects.create(...) as start calls it; the remaining
\* columns take the defaults of models.py.
NewSession(user, domain, difficulty, total_questions, mode, exam_config) ==
    [user |-> user, domain |-> domain, difficulty |-> difficulty,
     total_questions |-> total_questions, current_question |-> 1,
     correct_count |-> 0, topics_covered |-> <<>>,
     current_question_data |-> None, next_question_data |-> None,
     session_history |-> <<>>, highlights |-> <<>>, is_active |-> TRUE,
     completed_at |-> None, mode |-> mode, exam_config |-> exam_config,
     timer_start |-> IF mode = "exam" THEN Now ELSE None]

\* INSERT of a row under primary key sid.
CreateRow(db, sid, row) ==
    [i \in DOMAIN db \cup {sid} |-> IF i = sid THEN row ELSE db[i]]

\* session.save(): every column of the in-memory object is written.
SaveRow(db, sid, row) == [db EXCEPT ![sid] = row]

DeleteRowNoop(db, sid) == db

\* session.delete().
DeleteRow(db, sid) == [i \in DOMAIN db \ {sid} |-> db[i]]

Without(seq, sid) == SelectSeq(seq, LAMBDA i : i # sid)

\* last_accessed = auto_now: a saved row becomes the latest one.
Touch(seq, sid) == <<sid>> \o Without(seq, sid)

\* MockStudySession.objects.get(id=sid): DoesNotExist when absent.
Exists(sid) == sid \in DOMAIN sessions

\* MockStudySession.objects.get(id=sid, is_active=True).
ExistsActive(sid) == Exists(sid) /\ sessions[sid].is_active

(***************************************************************************)
(* Permissions: get_permissions and IsPaidUser.has_permission.             *)
(***************************************************************************)
IsPaidUserAuthenticated(user) == user \in Authenticated

\* IsPaidUser.has_permission: an anonymous user is refused, and so is a
\* user whose userprofile lookup raises AttributeError.
IsPaidUser(user) ==
    IF user \notin Authenticated THEN FALSE
    ELSE IF user \in DOMAIN userprofile THEN userprofile[user].is_paid
    ELSE FALSE

GatedActions == {"start", "next", "prefetch", "pivot"}

HasPermission(action, user) == action \in GatedActions => IsPaidUser(user)

PermissionDenied == [status |-> 403, data |-> [detail |-> "permission_denied"]]

\* A request rejected by the permission check: the handler never runs.
Reject(action, user, data) ==
    /\ ~HasPermission(action, user)
    /\ request' = [action |-> action, user |-> user, data |-> data]
    /\ response' = PermissionDenied
    /\ generation_calls' = 0
    /\ UNCHANGED <<sessions, next_id, recency, userprofile, pending,
                   payment_vars>>

PublicQuestionWhole(question_data) == question_data

\* The question as the client sees it: stem and options only.
PublicQuestion(question_data) ==
    [stem |-> Get(question_data, "stem", None),
     options |-> Get(question_data, "options", <<>>)]

(***************************************************************************)
(* start                                                                   *)
(***************************************************************************)
StartMode(data) == Get(data, "mode", "practice")

StartTotalUnclamped(data) ==
    IF StartMode(data) = "exam" THEN Get(data, "total_questions", 200)
    ELSE Get(data, "total_questions", 10)

\* total_questions as start stores it (views.py:484-500).
StartTotal(data) ==
    LET mode  == StartMode(data)
        total == IF mode = "exam" THEN Get(data, "total_questions", 200)
                 ELSE Get(data, "total_questions", 10)
    IN  IF mode = "practice" /\ total \notin {10, 25, 50} THEN 10 ELSE total

StartExamConfig(data) ==
    IF StartMode(data) = "exam"
    THEN IF Get(data, "total_questions", 200) = 200
         THEN [book |-> 1, total_books |-> 2]
         ELSE [book |-> 1, total_books |-> 1]
    ELSE EmptyDict

start(user, data, gen) ==
    /\ HasPermission("start", user)
    /\ next_id \in SessionIds
    /\ LET sid        == next_id
           domain     == Get(data, "domain", "OT_EXP")
           difficulty == Get(data, "difficulty", "Medium")
           total      == StartTotal(data)
           session    == NewSession(user, domain, difficulty, total,
                                    StartMode(data), StartExamConfig(data))
           created    == CreateRow(sessions, sid, session)
       IN  /\ request' = [action |-> "start", user |-> user, data |-> data]
           /\ next_id' = next_id + 1
           /\ generation_calls' = 1
           /\ IF ~Truthy(gen)
              THEN /\ sessions' = DeleteRow(created, sid)
                   /\ recency' = Without(Touch(recency, sid), sid)
                   /\ response' =
                        [status |-> 503,
                         data |-> [error |-> "Failed to generate question"]]
              ELSE /\ sessions' =
                        SaveRow(created, sid,
                                [session EXCEPT !.current_question_data = gen])
                   /\ recency' = Touch(recency, sid)
                   /\ response' =
                        [status |-> 201,
                         data |-> [session_id |-> sid, domain |-> domain,
                                   difficulty |-> difficulty,
                                   total_questions |-> total,
                                   current_question |-> 1,
                                   question |-> PublicQuestion(gen)]]
    /\ UNCHANGED <<userprofile, pending, payment_vars>>

(***************************************************************************)
(* prefetch                                                                *)
(***************************************************************************)
PrefetchWantedAlways(session) == TRUE

\* "Only generate if we don't already have one" (views.py:562).
PrefetchWanted(session) == ~Truthy(session.next_question_data)

prefetch(user, data, gen) ==
    /\ HasPermission("prefetch", user)
    /\ request' = [action |-> "prefetch", user |-> user, data |-> data]
    /\ LET sid == data.session_id IN
       IF ~ExistsActive(sid)
       THEN /\ response' = [status |-> 404,
                            data |-> [error |-> "Session not found"]]
            /\ generation_calls' = 0
            /\ UNCHANGED <<sessions, recency>>
       ELSE LET session == sessions[sid] IN
            IF session.current_question >= session.total_questions
            THEN /\ response' = [status |-> 200,
                                 data |-> [status |-> "no_more_questions"]]
                 /\ generation_calls' = 0
                 /\ UNCHANGED <<sessions, recency>>
            ELSE IF PrefetchWanted(session)
            THEN /\ generation_calls' = 1
                 /\ IF Truthy(gen)
                    THEN /\ sessions' =
                              SaveRow(sessions, sid,
                                      [session EXCEPT !.next_question_data = gen])
                         /\ recency' = Touch(recency, sid)
                         /\ response' =
                              [status |-> 200,
                               data |-> [status |-> "prefetched",
                                         question_number |->
                                             session.current_question + 1]]
                    ELSE /\ response' =
                              [status |-> 200,
                               data |-> [status |-> "already_prefetched"]]
                         /\ UNCHANGED <<sessions, recency>>
            ELSE /\ response' = [status |-> 200,
                                 data |-> [status |-> "already_prefetched"]]
                 /\ generation_calls' = 0
                 /\ UNCHANGED <<sessions, recency>>
    /\ UNCHANGED <<next_id, userprofile, pending, payment_vars>>

(***************************************************************************)
(* save_progress                                                           *)
(***************************************************************************)
save_progress(user, data) ==
    /\ request' = [action |-> "save_progress", user |-> user, data |-> data]
    /\ generation_calls' = 0
    /\ LET sid == data.session_id IN
       IF ~ExistsActive(sid)
       THEN /\ response' = [status |-> 404,
                            data |-> [error |-> "Session not found"]]
            /\ UNCHANGED <<sessions, recency>>
       ELSE /\ sessions' =
                 SaveRow(sessions, sid,
                         [sessions[sid] EXCEPT
                            !.highlights = Get(data, "highlights", <<>>)])
            /\ recency' = Touch(recency, sid)
            /\ response' = [status |-> 200, data |-> [status |-> "saved"]]
    /\ UNCHANGED <<next_id, userprofile, pending, payment_vars>>

(***************************************************************************)
(* get_active                                                              *)
(***************************************************************************)
\* filter(user=..., is_active=True).order_by('-last_accessed').first()
LatestActive(user) ==
    LET mine == SelectSeq(recency,
                          LAMBDA i : sessions[i].user = user
                                     /\ sessions[i].is_active)
    IN  IF mine = <<>> THEN 0 ELSE mine[1]

get_active(user) ==
    /\ request' = [action |-> "get_active", user |-> user, data |-> EmptyDict]
    /\ generation_calls' = 0
    /\ LET sid == LatestActive(user) IN
       IF sid = 0
       THEN response' = [status |-> 200, data |-> None]
       ELSE LET session == sessions[sid] IN
            IF session.current_question_data = None
            THEN \* None.get(...) raises AttributeError
                 response' = [status |-> 500,
                              data |-> [error |-> "AttributeError"]]
            ELSE response' =
                   [status |-> 200,
                    data |-> [session_id |-> sid,
                              domain |-> session.domain,
                              difficulty |-> session.difficulty,
                              total_questions |-> session.total_questions,
                              current_question |-> session.current_question,
                              question |->
                                  PublicQuestion(session.current_question_data),
                              highlights |-> session.highlights,
                              progress |->
                                  [current |-> session.current_question,
                                   total |-> session.total_questions,
                                   correct |-> session.correct_count]]]
    /\ UNCHANGED <<sessions, next_id, recency, userprofile, pending,
                   payment_vars>>


(***************************************************************************)
(* submit                                                                  *)
(***************************************************************************)
\* mock_study_service.generate_answer_feedback.  An f-string is modelled as
\* the tuple of the values it interpolates.
generate_answer_feedback(selected_label, correct_label, correct_rationale, incorrect_rationales) ==
    LET is_correct == Upper(selected_label) = Upper(correct_label) IN
    IF is_correct
    THEN [is_correct |-> TRUE, feedback_message |-> <<"Correct!">>,
          explanation |-> <<correct_rationale>>]
    ELSE LET incorrect_reason ==
                 Get(incorrect_rationales, Upper(selected_label),
                     "This option does not align with best practices.")
         IN  [is_correct |-> FALSE,
              feedback_message |-> <<"Not quite.", correct_label>>,
              explanation |-> <<selected_label, incorrect_reason,
                                correct_label, correct_rationale>>]

\* The feedback submit asks for (views.py:654-660).
SubmitFeedback(question_data, selected_label) ==
    generate_answer_feedback(
        selected_label,
        Get(question_data, "correct_label", ""),
        Get(question_data, "correct_rationale", ""),
        Get(question_data, "incorrect_rationales", EmptyDict))

InList(x, seq) == \E i \in DOMAIN seq : seq[i] = x

SubmitUpdateCompleting(session, question_data, selected_label, is_correct) ==
    [session EXCEPT
       !.correct_count = IF is_correct THEN @ + 1 ELSE @,
       !.session_history =
           Append(@, [question_number |-> session.current_question,
                      stem |-> Get(question_data, "stem", None),
                      selected_label |-> selected_label,
                      correct_label |->
                          Get(question_data, "correct_label", None),
                      is_correct |-> is_correct]),
       !.is_active = session.current_question < session.total_questions,
       !.completed_at =
           IF session.current_question >= session.total_questions
           THEN Now ELSE @]

\* The in-memory session after submit's updates (views.py:662-685); the
\* history item's wall-clock timestamp is left out.
SubmitUpdate(session, question_data, selected_label, is_correct) ==
    LET topic == Get(question_data, "topic", "") IN
    [session EXCEPT
       !.correct_count = IF is_correct THEN @ + 1 ELSE @,
       !.topics_covered =
           IF topic # "" /\ ~InList(topic, @) THEN Append(@, topic) ELSE @,
       !.session_history =
           Append(@, [question_number |-> session.current_question,
                      stem |-> Get(question_data, "stem", None),
                      selected_label |-> selected_label,
                      correct_label |->
                          Get(question_data, "correct_label", None),
                      is_correct |-> is_correct])]

SubmitResponseWithFeedback(session, feedback, is_complete) ==
    [status |-> 200,
     data |-> [progress |->
                   [current |-> session.current_question,
                    total |-> session.total_questions,
                    correct |-> session.correct_count,
                    percentage |-> IntPercent(session.current_question,
                                              session.total_questions)],
               is_complete |-> is_complete,
               feedback |-> feedback]]

\* The body submit returns for the saved session (views.py:691-708).
SubmitResponse(session, feedback, is_complete) ==
    LET progress == [current |-> session.current_question,
                     total |-> session.total_questions,
                     correct |-> session.correct_count,
                     percentage |-> IntPercent(session.current_question,
                                               session.total_questions)]
    IN  IF session.mode = "exam"
        THEN [status |-> 200,
              data |-> [progress |-> progress, is_complete |-> is_complete,
                        feedback |-> None, next_question_ready |-> TRUE]]
        ELSE [status |-> 200,
              data |-> [progress |-> progress, is_complete |-> is_complete,
                        feedback |-> feedback]]

\* What submit does to an active session holding a question: the session
\* it saves and the response it returns.
SubmitOutcome(session, data) ==
    LET selected_label == Upper(Get(data, "selected_label", ""))
        question_data  == session.current_question_data
        feedback       == SubmitFeedback(question_data, selected_label)
        saved          == SubmitUpdate(session, question_data, selected_label,
                                       feedback.is_correct)
        is_complete    == session.current_question >= session.total_questions
    IN  [session |-> saved,
         response |-> SubmitResponse(saved, feedback, is_complete)]

submitCompleted(user, data) ==
    /\ request' = [action |-> "submit", user |-> user, data |-> data]
    /\ generation_calls' = 0
    /\ LET sid == data.session_id IN
       IF ~Exists(sid)
       THEN /\ response' = [status |-> 404,
                            data |-> [error |-> "Session not found"]]
            /\ UNCHANGED <<sessions, recency>>
       ELSE IF ~Truthy(sessions[sid].current_question_data)
       THEN /\ response' = [status |-> 400,
                            data |-> [error |-> "No active question"]]
            /\ UNCHANGED <<sessions, recency>>
       ELSE /\ Len(sessions[sid].session_history) < MaxHistory
            /\ LET out == SubmitOutcome(sessions[sid], data) IN
               /\ sessions' = SaveRow(sessions, sid, out.session)
               /\ recency' = Touch(recency, sid)
               /\ response' = out.response
    /\ UNCHANGED <<next_id, userprofile, pending, payment_vars>>

submit(user, data) ==
    /\ request' = [action |-> "submit", user |-> user, data |-> data]
    /\ generation_calls' = 0
    /\ LET sid == data.session_id IN
       IF ~Exists(sid)
       THEN /\ response' = [status |-> 404,
                            data |-> [error |-> "Session not found"]]
            /\ UNCHANGED <<sessions, recency>>
       ELSE IF ~sessions[sid].is_active
       THEN /\ response' = [status |-> 400,
                            data |-> [error |-> "Session is already completed"]]
            /\ UNCHANGED <<sessions, recency>>
       ELSE IF ~Truthy(sessions[sid].current_question_data)
       THEN /\ response' = [status |-> 400,
                            data |-> [error |-> "No active question"]]
            /\ UNCHANGED <<sessions, recency>>
       ELSE /\ Len(sessions[sid].session_history) < MaxHistory
            /\ LET out == SubmitOutcome(sessions[sid], data) IN
               /\ sessions' = SaveRow(sessions, sid, out.session)
               /\ recency' = Touch(recency, sid)
               /\ response' = out.response
    /\ UNCHANGED <<next_id, userprofile, pending, payment_vars>>

(***************************************************************************)
(* pivot                                                                   *)
(***************************************************************************)
pivotSaving(user, data, pivot_data) ==
    /\ HasPermission("pivot", user)
    /\ request' = [action |-> "pivot", user |-> user, data |-> data]
    /\ LET sid == data.session_id IN
       IF ~Exists(sid)
       THEN /\ response' = [status |-> 404,
                            data |-> [error |-> "Session not found"]]
            /\ generation_calls' = 0
            /\ UNCHANGED <<sessions, recency>>
       ELSE /\ generation_calls' = 1
            /\ response' = [status |-> 200, data |-> pivot_data]
            /\ sessions' =
                 SaveRow(sessions, sid,
                         [sessions[sid] EXCEPT
                            !.current_question_data = pivot_data])
            /\ recency' = Touch(recency, sid)
    /\ UNCHANGED <<next_id, userprofile, pending, payment_vars>>

pivot(user, data, pivot_data) ==
    /\ HasPermission("pivot", user)
    /\ request' = [action |-> "pivot", user |-> user, data |-> data]
    /\ LET sid == data.session_id IN
       IF ~Exists(sid)
       THEN /\ response' = [status |-> 404,
                            data |-> [error |-> "Session not found"]]
            /\ generation_calls' = 0
       ELSE IF ~Truthy(sessions[sid].current_question_data)
       THEN /\ response' =
                 [status |-> 400,
                  data |-> [error |-> "No active question data to pivot"]]
            /\ generation_calls' = 0
       ELSE /\ generation_calls' = 1
            /\ IF ~Truthy(pivot_data)
               THEN response' = [status |-> 503,
                                 data |-> [error |-> "Failed to generate pivot"]]
               ELSE response' = [status |-> 200, data |-> pivot_data]
    /\ UNCHANGED <<sessions, next_id, recency, userprofile, pending,
                   payment_vars>>

(***************************************************************************)
(* next                                                                    *)
(***************************************************************************)
UsePrefetchedNever(session) == FALSE

\* "USE PREFETCHED DATA IF AVAILABLE" (views.py:773).
UsePrefetched(session) == Truthy(session.next_question_data)

NextSavedAlways(question_data) == TRUE

\* Whether next reaches session.save() after advancing: the early return of
\* views.py:786-787 comes before it.
NextSaved(question_data) == Truthy(question_data)

\* next on a session at its last question (views.py:755-767).
NextComplete(session) ==
    [session |-> [session EXCEPT !.is_active = FALSE, !.completed_at = Now],
     response |->
         [status |-> 200,
          data |-> [is_complete |-> TRUE,
                    final_score |->
                        [correct |-> session.correct_count,
                         total |-> session.total_questions,
                         percentage |->
                             IntPercent(session.correct_count,
                                        session.total_questions)]]]]

\* next on a session with questions left (views.py:769-801): the in-memory
\* session, whether it is saved, and the response.
NextAdvance(session, gen) ==
    LET advanced      == [session EXCEPT !.current_question = @ + 1]
        prefetched    == UsePrefetched(advanced)
        question_data == IF prefetched THEN advanced.next_question_data
                         ELSE gen
        consumed      == IF prefetched
                         THEN [advanced EXCEPT !.next_question_data = None]
                         ELSE advanced
    IN  IF ~Truthy(question_data)
        THEN [session |-> consumed, saved |-> NextSaved(question_data),
              calls |-> IF prefetched THEN 0 ELSE 1,
              response |->
                  [status |-> 503,
                   data |-> [error |-> "Failed to generate question"]]]
        ELSE [session |-> [consumed EXCEPT
                             !.current_question_data = question_data],
              saved |-> NextSaved(question_data),
              calls |-> IF prefetched THEN 0 ELSE 1,
              response |->
                  [status |-> 200,
                   data |-> [is_complete |-> FALSE,
                             current_question |-> advanced.current_question,
                             total_questions |-> advanced.total_questions,
                             question |-> PublicQuestion(question_data),
                             highlights |-> advanced.highlights]]]

next(user, data, gen) ==
    /\ HasPermission("next", user)
    /\ request' = [action |-> "next", user |-> user, data |-> data]
    /\ LET sid == data.session_id IN
       IF ~ExistsActive(sid)
       THEN /\ response' = [status |-> 404,
                            data |-> [error |-> "Session not found or expired"]]
            /\ generation_calls' = 0
            /\ UNCHANGED <<sessions, recency>>
       ELSE LET session == sessions[sid] IN
            IF session.current_question >= session.total_questions
            THEN LET out == NextComplete(session) IN
                 /\ sessions' = SaveRow(sessions, sid, out.session)
                 /\ recency' = Touch(recency, sid)
                 /\ response' = out.response
                 /\ generation_calls' = 0
            ELSE /\ session.current_question < MaxProgress
                 /\ LET out == NextAdvance(session, gen) IN
                    /\ generation_calls' = out.calls
                    /\ response' = out.response
                    /\ IF out.saved
                       THEN /\ sessions' = SaveRow(sessions, sid, out.session)
                            /\ recency' = Touch(recency, sid)
                       ELSE UNCHANGED <<sessions, recency>>
    /\ UNCHANGED <<next_id, userprofile, pending, payment_vars>>

(***************************************************************************)
(* The service: any client sends any request at any time.                  *)
(***************************************************************************)
\* Bodies of the requests the permission check turns away.
RejectBodies(action) ==
    IF action = "start" THEN {EmptyDict} ELSE SessionBodies

\* The slots of the requests in flight, and a free one.
Slots == 1..MaxInflight

Idle == [state |-> "idle"]

NoRequest == [action |-> "none", user |-> "none", data |-> EmptyDict]

Init ==
    /\ sessions = <<>>
    /\ next_id = 1
    /\ recency = <<>>
    /\ userprofile = [u \in Users |-> [is_paid |-> u = "alice"]]
    /\ request = NoRequest
    /\ response = [status |-> 0, data |-> None]
    /\ generation_calls = 0
    /\ pending = [slot \in Slots |-> Idle]
    /\ stripe_sessions = <<>>
    /\ fulfilments = <<>>
    /\ library = <<>>

Next ==
    \/ \E u \in Users, d \in StartBodies, g \in GenOutcomes : start(u, d, g)
    \/ \E u \in Users, d \in SessionBodies, g \in GenOutcomes :
          prefetch(u, d, g)
    \/ \E u \in Users, d \in SaveBodies : save_progress(u, d)
    \/ \E u \in Users : get_active(u)
    \/ \E u \in Users, d \in SubmitBodies : submit(u, d)
    \/ \E u \in Users, d \in SessionBodies, p \in PivotOutcomes :
          pivot(u, d, p)
    \/ \E u \in Users, d \in SessionBodies, g \in GenOutcomes : next(u, d, g)
    \/ \E a \in GatedActions, u \in Clients :
          \E d \in RejectBodies(a) : Reject(a, u, d)

Spec == Init /\ [][Next]_vars


(***************************************************************************)
(* Sessions at their last question, for the final score.  Each is a state  *)
(* the service reaches: question 1 was generated for every number, the     *)
(* first `correct` questions were answered "A" (right), the others were    *)
(* skipped with next.                                                      *)
(***************************************************************************)
AllowedTotals == {10, 25, 50, 100, 200}

LastQuestionSession(total, correct) ==
    LET mode == IF total \in {10, 25, 50} THEN "practice" ELSE "exam"
        body == [mode |-> mode, total_questions |-> total]
    IN  [NewSession("alice", "OT_EXP", "Medium", StartTotal(body),
                    StartMode(body), StartExamConfig(body))
         EXCEPT !.current_question = total,
                !.correct_count = correct,
                !.current_question_data = Question1,
                !.topics_covered =
                    IF correct > 0 THEN <<Question1.topic>> ELSE <<>>,
                !.session_history =
                    [i \in 1..correct |->
                       [question_number |-> i, stem |-> Question1.stem,
                        selected_label |-> "A",
                        correct_label |-> Question1.correct_label,
                        is_correct |-> TRUE]]]

InitFinal ==
    /\ \E total \in AllowedTotals : \E correct \in 0..total :
          sessions = CreateRow(<<>>, 1, LastQuestionSession(total, correct))
    /\ next_id = 2
    /\ recency = <<1>>
    /\ userprofile = [u \in Users |-> [is_paid |-> u = "alice"]]
    /\ request = NoRequest
    /\ response = [status |-> 0, data |-> None]
    /\ generation_calls = 0
    /\ pending = [slot \in Slots |-> Idle]
    /\ stripe_sessions = <<>>
    /\ fulfilments = <<>>
    /\ library = <<>>

NextFinal ==
    \/ \E u \in Users, d \in SessionBodies, g \in GenOutcomes : next(u, d, g)
    \/ \E u \in Users : get_active(u)

SpecFinal == InitFinal /\ [][NextFinal]_vars

(***************************************************************************)
(* Requests that overlap in time.  Every request is handled by its own     *)
(* worker, and nothing serialises two of them: a handler that waits for    *)
(* the generation adapter between reading or creating its session and      *)
(* saving it is two steps, and other requests run between the two.         *)
(***************************************************************************)
RaceStartBodies == {EmptyDict, [mode |-> "exam", total_questions |-> 2]}

\* A slot is free when no request waits in it; the lowest free slot takes
\* the next request.
Free(slot) == pending[slot].state # "running"

Takes(slot) == Free(slot) /\ \A other \in 1..(slot - 1) : ~Free(other)

Running(slot, action) ==
    pending[slot].state = "running" /\ pending[slot].action = action

\* A request waiting for the adapter, with the session object it holds.
InFlight(action, user, data, sid, session) ==
    [state |-> "running", action |-> action, user |-> user, data |-> data,
     session_id |-> sid, session |-> session, response |-> None]

\* An answered request: what is kept of it is the current_question it
\* read (0: it read no session), the status of its response and the
\* number of the question the response carried (0: none).
Done(p, resp) ==
    [state |-> "done", action |-> p.action, session_id |-> p.session_id,
     read |-> IF p.session = None THEN 0 ELSE p.session.current_question,
     status |-> resp.status,
     issued |-> IF "current_question" \in DOMAIN resp.data
                THEN resp.data.current_question ELSE 0]

\* session.save() of an object whose row may be gone: Django updates the
\* row and inserts it when the update matches none.
SaveOrInsertRow(db, sid, row) == CreateRow(db, sid, row)

\* start up to the call of the adapter (views.py:482-514): the row exists.
start_create(slot, user, data) ==
    /\ HasPermission("start", user)
    /\ Takes(slot)
    /\ next_id \in SessionIds
    /\ LET sid     == next_id
           session == NewSession(user, Get(data, "domain", "OT_EXP"),
                                 Get(data, "difficulty", "Medium"),
                                 StartTotal(data), StartMode(data),
                                 StartExamConfig(data))
       IN  /\ sessions' = CreateRow(sessions, sid, session)
           /\ recency' = Touch(recency, sid)
           /\ next_id' = next_id + 1
           /\ pending' = [pending EXCEPT
                            ![slot] = InFlight("start", user, data, sid,
                                               session)]
    /\ UNCHANGED <<userprofile, request, response, generation_calls,
                   payment_vars>>

\* start from the adapter's answer on (views.py:525-544).
start_finish(slot, gen) ==
    /\ Running(slot, "start")
    /\ LET p       == pending[slot]
           sid     == p.session_id
           session == p.session
           resp    ==
               IF ~Truthy(gen)
               THEN [status |-> 503,
                     data |-> [error |-> "Failed to generate question"]]
               ELSE [status |-> 201,
                     data |-> [session_id |-> sid, domain |-> session.domain,
                               difficulty |-> session.difficulty,
                               total_questions |-> session.total_questions,
                               current_question |-> 1,
                               question |-> PublicQuestion(gen)]]
       IN  /\ request' = [action |-> "start", user |-> p.user,
                          data |-> p.data]
           /\ response' = resp
           /\ generation_calls' = 1
           /\ pending' = [pending EXCEPT ![slot] = Done(p, resp)]
           /\ IF ~Truthy(gen)
              THEN /\ sessions' = DeleteRow(sessions, sid)
                   /\ recency' = Without(recency, sid)
              ELSE /\ sessions' =
                        SaveOrInsertRow(sessions, sid,
                            [session EXCEPT !.current_question_data = gen])
                   /\ recency' = Touch(recency, sid)
    /\ UNCHANGED <<next_id, userprofile, payment_vars>>

\* next up to the call of the adapter (views.py:747-784): the session is
\* read into the request's own object.  A request that finds no active
\* session is answered at once.
next_read(slot, user, data) ==
    /\ HasPermission("next", user)
    /\ Takes(slot)
    /\ LET sid == data.session_id IN
       IF ~ExistsActive(sid)
       THEN LET resp == [status |-> 404,
                         data |-> [error |-> "Session not found or expired"]]
            IN  /\ request' = [action |-> "next", user |-> user,
                               data |-> data]
                /\ response' = resp
                /\ generation_calls' = 0
                /\ pending' =
                     [pending EXCEPT
                        ![slot] = Done(InFlight("next", user, data, sid,
                                                None), resp)]
       ELSE /\ pending' = [pending EXCEPT
                             ![slot] = InFlight("next", user, data, sid,
                                                sessions[sid])]
            /\ UNCHANGED <<request, response, generation_calls>>
    /\ UNCHANGED <<sessions, next_id, recency, userprofile, payment_vars>>

next_finishStoredCounter(slot, gen) ==
    /\ Running(slot, "next")
    /\ pending[slot].session_id \in DOMAIN sessions
    /\ LET p   == pending[slot]
           sid == p.session_id
           out == NextAdvance(sessions[sid], gen)
       IN  /\ p.session.current_question < MaxProgress
           /\ request' = [action |-> "next", user |-> p.user, data |-> p.data]
           /\ response' = out.response
           /\ generation_calls' = out.calls
           /\ pending' = [pending EXCEPT ![slot] = Done(p, out.response)]
           /\ sessions' = SaveRow(sessions, sid, out.session)
           /\ recency' = Touch(recency, sid)
    /\ UNCHANGED <<next_id, userprofile, payment_vars>>

\* next from the adapter's answer on (views.py:755-801), on the object read
\* before: whatever the row holds by now, save() writes the object.
next_finish(slot, gen) ==
    /\ Running(slot, "next")
    /\ LET p       == pending[slot]
           sid     == p.session_id
           session == p.session
       IN  /\ request' = [action |-> "next", user |-> p.user, data |-> p.data]
           /\ IF session.current_question >= session.total_questions
              THEN LET out == NextComplete(session) IN
                   /\ sessions' = SaveOrInsertRow(sessions, sid, out.session)
                   /\ recency' = Touch(recency, sid)
                   /\ response' = out.response
                   /\ generation_calls' = 0
                   /\ pending' = [pending EXCEPT
                                    ![slot] = Done(p, out.response)]
              ELSE /\ session.current_question < MaxProgress
                   /\ LET out == NextAdvance(session, gen) IN
                      /\ generation_calls' = out.calls
                      /\ response' = out.response
                      /\ pending' = [pending EXCEPT
                                       ![slot] = Done(p, out.response)]
                      /\ IF out.saved
                         THEN /\ sessions' =
                                   SaveOrInsertRow(sessions, sid, out.session)
                              /\ recency' = Touch(recency, sid)
                         ELSE UNCHANGED <<sessions, recency>>
    /\ UNCHANGED <<next_id, userprofile, payment_vars>>

NextRace ==
    \/ \E slot \in Slots, u \in Users, d \in RaceStartBodies :
          start_create(slot, u, d)
    \/ \E slot \in Slots, g \in GenOutcomes : start_finish(slot, g)
    \/ \E slot \in Slots, u \in Users, d \in SessionBodies :
          next_read(slot, u, d)
    \/ \E slot \in Slots, g \in GenOutcomes : next_finish(slot, g)
    \/ \E u \in Users : get_active(u)

SpecRace == Init /\ [][NextRace]_vars

(***************************************************************************)
(* submit and prefetch among the overlapping requests.  prefetch waits for *)
(* the generation adapter between its read and its save; submit reads the  *)
(* row and saves it in two statements with no transaction around them.     *)
(***************************************************************************)
\* Submits the exploration follows for one session where requests overlap.
MaxSubmits == 2

RaceSubmitBodies ==
    {[session_id |-> i, selected_label |-> "A"] : i \in SessionIds}

\* A request answered before it waits for anything.
Answered(slot, action, user, data, sid, resp) ==
    /\ request' = [action |-> action, user |-> user, data |-> data]
    /\ response' = resp
    /\ generation_calls' = 0
    /\ pending' = [pending EXCEPT
                     ![slot] = Done(InFlight(action, user, data, sid, None),
                                    resp)]

\* The error submit answers with before it grades (views.py:637-651); None
\* when it goes on.
SubmitError(sid) ==
    IF ~Exists(sid)
    THEN [status |-> 404, data |-> [error |-> "Session not found"]]
    ELSE IF ~sessions[sid].is_active
    THEN [status |-> 400, data |-> [error |-> "Session is already completed"]]
    ELSE IF ~Truthy(sessions[sid].current_question_data)
    THEN [status |-> 400, data |-> [error |-> "No active question"]]
    ELSE None

\* submit up to the read of the session (views.py:637-651).
submit_read(slot, user, data) ==
    /\ Takes(slot)
    /\ LET sid == data.session_id IN
       IF SubmitError(sid) # None
       THEN Answered(slot, "submit", user, data, sid, SubmitError(sid))
       ELSE /\ Len(sessions[sid].session_history) < MaxSubmits
            /\ pending' = [pending EXCEPT
                             ![slot] = InFlight("submit", user, data, sid,
                                                sessions[sid])]
            /\ UNCHANGED <<request, response, generation_calls>>
    /\ UNCHANGED <<sessions, next_id, recency, userprofile, payment_vars>>

\* submit from the grading on (views.py:653-708), on the object read before.
submit_finish(slot) ==
    /\ Running(slot, "submit")
    /\ LET p   == pending[slot]
           out == SubmitOutcome(p.session, p.data)
       IN  /\ request' = [action |-> "submit", user |-> p.user,
                          data |-> p.data]
           /\ response' = out.response
           /\ generation_calls' = 0
           /\ sessions' = SaveOrInsertRow(sessions, p.session_id, out.session)
           /\ recency' = Touch(recency, p.session_id)
           /\ pending' = [pending EXCEPT ![slot] = Done(p, out.response)]
    /\ UNCHANGED <<next_id, userprofile, payment_vars>>

\* prefetch up to the call of the adapter (views.py:551-564).
prefetch_read(slot, user, data) ==
    /\ HasPermission("prefetch", user)
    /\ Takes(slot)
    /\ LET sid == data.session_id IN
       IF ~ExistsActive(sid)
       THEN Answered(slot, "prefetch", user, data, sid,
                     [status |-> 404, data |-> [error |-> "Session not found"]])
       ELSE IF sessions[sid].current_question >= sessions[sid].total_questions
       THEN Answered(slot, "prefetch", user, data, sid,
                     [status |-> 200,
                      data |-> [status |-> "no_more_questions"]])
       ELSE IF ~PrefetchWanted(sessions[sid])
       THEN Answered(slot, "prefetch", user, data, sid,
                     [status |-> 200,
                      data |-> [status |-> "already_prefetched"]])
       ELSE /\ pending' = [pending EXCEPT
                             ![slot] = InFlight("prefetch", user, data, sid,
                                                sessions[sid])]
            /\ UNCHANGED <<request, response, generation_calls>>
    /\ UNCHANGED <<sessions, next_id, recency, userprofile, payment_vars>>

\* prefetch from the adapter's answer on (views.py:571-576).
prefetch_finish(slot, gen) ==
    /\ Running(slot, "prefetch")
    /\ LET p    == pending[slot]
           resp == IF Truthy(gen)
                   THEN [status |-> 200,
                         data |-> [status |-> "prefetched",
                                   question_number |->
                                       p.session.current_question + 1]]
                   ELSE [status |-> 200,
                         data |-> [status |-> "already_prefetched"]]
       IN  /\ request' = [action |-> "prefetch", user |-> p.user,
                          data |-> p.data]
           /\ response' = resp
           /\ generation_calls' = 1
           /\ pending' = [pending EXCEPT ![slot] = Done(p, resp)]
           /\ IF Truthy(gen)
              THEN /\ sessions' =
                        SaveOrInsertRow(sessions, p.session_id,
                            [p.session EXCEPT !.next_question_data = gen])
                   /\ recency' = Touch(recency, p.session_id)
              ELSE UNCHANGED <<sessions, recency>>
    /\ UNCHANGED <<next_id, userprofile, payment_vars>>

NextOverlap ==
    \/ \E slot \in Slots, u \in Users, d \in RaceStartBodies :
          start_create(slot, u, d)
    \/ \E slot \in Slots, g \in GenOutcomes : start_finish(slot, g)
    \/ \E slot \in Slots, u \in Users, d \in RaceSubmitBodies :
          submit_read(slot, u, d)
    \/ \E slot \in Slots : submit_finish(slot)
    \/ \E slot \in Slots, u \in Users, d \in SessionBodies :
          prefetch_read(slot, u, d)
    \/ \E slot \in Slots, g \in GenOutcomes : prefetch_finish(slot, g)
    \/ \E slot \in Slots, u \in Users, d \in SessionBodies :
          next_read(slot, u, d)
    \/ \E slot \in Slots, g \in GenOutcomes : next_finish(slot, g)

SpecOverlap == Init /\ [][NextOverlap]_vars

(***************************************************************************)
(* submit against every state a session goes through: not yet created, in  *)
(* the middle of start (the row is there, its question is not), holding a  *)
(* question, completed.                                                    *)
(***************************************************************************)
NextSubmit ==
    \/ \E slot \in Slots, u \in Users, d \in RaceStartBodies :
          start_create(slot, u, d)
    \/ \E slot \in Slots, g \in GenOutcomes : start_finish(slot, g)
    \/ \E u \in Users, d \in SubmitBodies : submit(u, d)
    \/ \E u \in Users, d \in SessionBodies, g \in GenOutcomes : next(u, d, g)

SpecSubmit == Init /\ [][NextSubmit]_vars

(***************************************************************************)
(* Payments: the checkout, the provider's webhook and the manual sync.     *)
(* The provider is the environment: it holds the checkout sessions, lets   *)
(* a customer pay one, and delivers (or loses) webhook events.             *)
(***************************************************************************)
\* Checkout sessions the provider holds.
MaxCheckouts == 1
\* Runs of fulfill_order the exploration follows.
MaxFulfilments == 2

\* PRICE_IDS: the tiers on sale, and a tier that is not.
Tiers == {"crammer", "beta"}

CheckoutTiers == Tiers \cup {"gold"}

\* A UserProfile row as get_or_create makes it.
NewProfile ==
    [is_paid |-> FALSE, subscription_tier |-> None,
     stripe_customer_id |-> None]

\* user.userprofile: RelatedObjectDoesNotExist when the row is missing.
HasProfile(user) == user \in DOMAIN userprofile

\* stripe.checkout.Session.create(customer, ..., metadata).
CheckoutSession(customer, user, tier) ==
    [customer |-> customer, payment_status |-> "unpaid",
     metadata |-> [user_id |-> user, tier |-> tier]]

\* An object of the provider's account that no checkout of this service
\* made: it carries no metadata.
ForeignObject ==
    [customer |-> [cus |-> "other"], payment_status |-> "paid",
     metadata |-> EmptyDict]

\* CreateCheckoutSessionView.post and create_checkout_session.
create_checkout_session(user, tier) ==
    /\ Len(stripe_sessions) < MaxCheckouts
    /\ request' = [action |-> "checkout", user |-> user,
                   data |-> [tier |-> tier]]
    /\ generation_calls' = 0
    /\ IF tier \notin Tiers
       THEN /\ response' = [status |-> 400,
                            data |-> [error |-> <<"Invalid tier", tier>>]]
            /\ UNCHANGED <<userprofile, stripe_sessions>>
       ELSE LET profile  == IF HasProfile(user) THEN userprofile[user]
                            ELSE NewProfile
                customer == IF Truthy(profile.stripe_customer_id)
                            THEN profile.stripe_customer_id
                            ELSE [cus |-> user]
            IN  /\ userprofile' =
                     [u \in DOMAIN userprofile \cup {user} |->
                        IF u = user
                        THEN [profile EXCEPT !.stripe_customer_id = customer]
                        ELSE userprofile[u]]
                /\ stripe_sessions' =
                     <<CheckoutSession(customer, user, tier)>>
                       \o stripe_sessions
                /\ response' = [status |-> 200,
                                data |-> [sessionId |-> Len(stripe_sessions) + 1]]
    /\ UNCHANGED <<sessions, next_id, recency, pending, fulfilments, library>>

\* The customer pays a checkout session at the provider.
provider_pays(i) ==
    /\ i \in DOMAIN stripe_sessions
    /\ stripe_sessions[i].payment_status = "unpaid"
    /\ stripe_sessions' =
         [stripe_sessions EXCEPT ![i].payment_status = "paid"]
    /\ UNCHANGED <<sessions, next_id, recency, userprofile, request,
                   response, generation_calls, pending, fulfilments, library>>

\* Whether fulfill_order reaches a profile (stripe_service.py:71-74).  The
\* ids and tiers of the model are non-empty strings: a key that is present
\* is truthy.
Fulfils(session) ==
    LET metadata == Get(session, "metadata", EmptyDict)
    IN  "user_id" \in DOMAIN metadata /\ "tier" \in DOMAIN metadata

\* fulfill_order raises: User.objects.get or user.userprofile finds none.
FulfilRaises(session) ==
    Fulfils(session) /\ ~HasProfile(session.metadata.user_id)

\* The profiles after fulfill_order(session) (stripe_service.py:75-80).
FulfilledProfiles(session) ==
    IF Fulfils(session) /\ ~FulfilRaises(session)
    THEN [userprofile EXCEPT
            ![session.metadata.user_id] =
                [@ EXCEPT !.subscription_tier = session.metadata.tier,
                          !.is_paid = TRUE]]
    ELSE userprofile

\* The runs of fulfill_order so far, this one added: who was fulfilled,
\* the tier, and which path ran it (a confirmation mail goes with each).
Fulfilled(session, path) ==
    IF Fulfils(session) /\ ~FulfilRaises(session)
    THEN Append(fulfilments,
                [user |-> session.metadata.user_id,
                 tier |-> session.metadata.tier, path |-> path])
    ELSE fulfilments

WebhookFulfilsAnyType(event) == TRUE

\* handle_stripe_webhook: only a completed checkout is fulfilled.
WebhookFulfils(event) == event.type = "checkout.session.completed"

\* What construct_event makes of the payload and its signature header.
Signatures == {"verified", "SignatureVerificationError", "ValueError"}

EventTypes == {"checkout.session.completed", "payment_intent.succeeded"}

\* The object a delivered event carries: the i-th checkout session, or the
\* foreign object for 0.
EventObject(i) ==
    IF i \in DOMAIN stripe_sessions THEN stripe_sessions[i]
    ELSE ForeignObject

\* StripeWebhookView.post and handle_stripe_webhook.
webhook(signature, type, i) ==
    /\ i \in 0..Len(stripe_sessions)
    /\ request' = [action |-> "webhook", user |-> "stripe",
                   data |-> [signature |-> signature, type |-> type,
                             object |-> EventObject(i)]]
    /\ generation_calls' = 0
    /\ LET object == EventObject(i)
           event  == [type |-> type, object |-> object]
       IN
       IF signature # "verified"
       THEN /\ response' = [status |-> 400, data |-> [error |-> signature]]
            /\ UNCHANGED <<userprofile, fulfilments>>
       ELSE IF ~WebhookFulfils(event)
       THEN /\ response' = [status |-> 200, data |-> None]
            /\ UNCHANGED <<userprofile, fulfilments>>
       ELSE IF FulfilRaises(object)
       THEN /\ response' = [status |-> 400,
                            data |-> [error |-> "DoesNotExist"]]
            /\ UNCHANGED <<userprofile, fulfilments>>
       ELSE /\ response' = [status |-> 200, data |-> None]
            /\ userprofile' = FulfilledProfiles(object)
            /\ fulfilments' = Fulfilled(object, "webhook")
    /\ Len(fulfilments') <= MaxFulfilments
    /\ UNCHANGED <<sessions, next_id, recency, pending, stripe_sessions, library>>

\* stripe.checkout.Session.list(customer=..., limit=5).
ListLimit == 5

SessionList(customer) ==
    LET own == SelectSeq(stripe_sessions, LAMBDA s : s.customer = customer)
    IN  SubSeq(own, 1, IF Len(own) < ListLimit THEN Len(own) ELSE ListLimit)

SyncFulfilsAnyPaid(profile, session) == session.payment_status = "paid"

\* The test of verify_payment_status's loop (stripe_service.py:173-178).
SyncFulfils(profile, session) ==
    session.payment_status = "paid" /\ ~profile.is_paid

\* verify_payment_status: the first listed session that passes the test is
\* fulfilled and the loop is left; 0 when none passes.
SyncChoice(profile) ==
    LET listed == SessionList(profile.stripe_customer_id)
        hits   == {i \in DOMAIN listed : SyncFulfils(profile, listed[i])}
    IN  IF hits = {} THEN None
        ELSE listed[CHOOSE i \in hits : \A j \in hits : i <= j]

\* SyncPaymentView.post and verify_payment_status; the provider's list call
\* answers or raises.
sync(user, provider_ok) ==
    /\ request' = [action |-> "sync", user |-> user, data |-> EmptyDict]
    /\ generation_calls' = 0
    /\ IF ~HasProfile(user)
       THEN /\ response' = [status |-> 500,
                            data |-> [error |-> "RelatedObjectDoesNotExist"]]
            /\ UNCHANGED <<userprofile, fulfilments>>
       ELSE LET profile == userprofile[user]
                chosen  == IF Truthy(profile.stripe_customer_id)
                              /\ provider_ok
                           THEN SyncChoice(profile) ELSE None
                updated == chosen # None /\ ~FulfilRaises(chosen)
                after   == IF updated THEN FulfilledProfiles(chosen)
                           ELSE userprofile
            IN  /\ userprofile' = after
                /\ fulfilments' = IF updated THEN Fulfilled(chosen, "sync")
                                  ELSE fulfilments
                /\ response' =
                     [status |-> 200,
                      data |-> [success |-> TRUE, updated |-> updated,
                                is_paid |-> after[user].is_paid,
                                tier |-> after[user].subscription_tier]]
    /\ Len(fulfilments') <= MaxFulfilments
    /\ UNCHANGED <<sessions, next_id, recency, pending, stripe_sessions, library>>

InitPay ==
    /\ sessions = <<>>
    /\ next_id = 1
    /\ recency = <<>>
    /\ userprofile = [u \in Users |-> NewProfile]
    /\ request = NoRequest
    /\ response = [status |-> 0, data |-> None]
    /\ generation_calls = 0
    /\ pending = [slot \in Slots |-> Idle]
    /\ stripe_sessions = <<>>
    /\ fulfilments = <<>>
    /\ library = <<>>

NextPay ==
    \/ \E u \in Authenticated, t \in CheckoutTiers :
          create_checkout_session(u, t)
    \/ \E i \in 1..MaxCheckouts : provider_pays(i)
    \/ \E s \in Signatures, t \in EventTypes, i \in 0..MaxCheckouts :
          webhook(s, t, i)
    \/ \E u \in Authenticated, ok \in BOOLEAN : sync(u, ok)

SpecPay == InitPay /\ [][NextPay]_vars

(***************************************************************************)
(* Evidence-link analysis (gemini_service.analyze_evidence_link).  A       *)
(* string is the sequence of its characters; positions count from 0 as in  *)
(* Python.                                                                 *)
(***************************************************************************)
\* Entries of user_highlights in one request.
MaxHighlights == 2
\* Entries of expert_indicators the exploration combines freely.
MaxIndicators == 2

\* str.lower() on the characters of the model.
Lower(s) ==
    [i \in DOMAIN s |->
        CASE s[i] = "A" -> "a" [] s[i] = "B" -> "b" [] s[i] = "C" -> "c"
          [] s[i] = "D" -> "d" [] s[i] = "E" -> "e" [] OTHER -> s[i]]

\* text occurs in s at position i (from 0).
OccursAt(s, text, i) ==
    /\ i + Len(text) <= Len(s)
    /\ SubSeq(s, i + 1, i + Len(text)) = text

\* s.find(text): the first position, -1 when there is none.
Find(s, text) ==
    LET at == {i \in 0..Len(s) : OccursAt(s, text, i)}
    IN  IF at = {} THEN -1 ELSE CHOOSE i \in at : \A j \in at : i <= j

\* text in s.
In(text, s) == Find(s, text) # -1

\* The located indicators (gemini_service.py:190-203), in the order given.
ExpertHighlights(vignette, expert_indicators) ==
    LET located == SelectSeq(expert_indicators,
                             LAMBDA ind : Find(vignette, ind.text) # -1)
    IN  [k \in DOMAIN located |->
           [start |-> Find(vignette, located[k].text),
            end |-> Find(vignette, located[k].text) + Len(located[k].text),
            text |-> located[k].text,
            importance |-> located[k].importance]]

\* The interval test of gemini_service.py:215.
IntervalMatch(uh_start, uh_end, eh) ==
    \/ (uh_start <= eh.start /\ eh.start < uh_end)
    \/ (uh_start < eh.end /\ eh.end <= uh_end)

\* The inner loop (gemini_service.py:211-221): some user highlight matches.
Found(eh, user_highlights) ==
    \E k \in DOMAIN user_highlights :
        LET uh == user_highlights[k] IN
        \/ IntervalMatch(Get(uh, "start", 0), Get(uh, "end", 0), eh)
        \/ In(Lower(eh.text), Lower(Get(uh, "text", <<>>)))

\* int((matched_count / total_indicators) * 100), 0 without indicators.
EvidenceScore(matched_count, total_indicators) ==
    IF total_indicators > 0
    THEN IntPercent(matched_count, total_indicators) ELSE 0

AnalysisFailed ==
    [expert_highlights |-> <<>>, matched_count |-> 0,
     missed_indicators |-> <<>>,
     perceptual_tip |-> "Analysis failed. Please try again.", score |-> 0]

\* analyze_evidence_link from the provider's parsed answer on; None is an
\* answer that raised or did not parse.
analyze_evidence_link(vignette, user_highlights, result) ==
    IF result = None THEN AnalysisFailed
    ELSE LET expert_highlights ==
                 ExpertHighlights(vignette,
                                  Get(result, "expert_indicators", <<>>))
             matched == SelectSeq(expert_highlights,
                                  LAMBDA eh : Found(eh, user_highlights))
             missed  == SelectSeq(expert_highlights,
                                  LAMBDA eh : ~Found(eh, user_highlights))
         IN  [expert_highlights |-> expert_highlights,
              matched_count |-> Len(matched),
              missed_indicators |-> missed,
              perceptual_tip |->
                  Get(result, "perceptual_tip",
                      "Review the highlighted clinical indicators."),
              score |-> EvidenceScore(Len(matched), Len(expert_highlights))]

\* The vignette of the exploration and the texts the provider may name:
\* two phrases of the vignette, one in another case, one absent, the empty one.
Vignette == <<"a", "B", "c", "d", "e">>

IndicatorTexts ==
    {<<"B", "c", "d">>, <<"e">>, <<"b", "c", "d">>, <<"x">>, <<>>}

Indicator(text) == [text |-> text, importance |-> "critical"]

\* n indicators of which the first k name one phrase and the others another.
Split(n, k, first, rest) ==
    [i \in 1..n |-> IF i <= k THEN Indicator(first) ELSE Indicator(rest)]

\* Lengths of the long indicator lists.
SplitTotals == {4, 50}

IndicatorLists ==
    UNION {[1..n -> {Indicator(t) : t \in IndicatorTexts}] :
             n \in 0..MaxIndicators}
    \cup UNION {{Split(n, k, <<"B", "c", "d">>, <<"e">>) : k \in 0..n} :
                   n \in SplitTotals}

\* Highlights of a client that sends the span and its text, and two that
\* send a text of their own or no span.
SpanHighlights ==
    {[start |-> s, end |-> e, text |-> SubSeq(Vignette, s + 1, e)] :
        s \in 0..Len(Vignette), e \in 0..Len(Vignette)}

Highlights ==
    {h \in SpanHighlights : h.start < h.end}
    \cup {[start |-> 0, end |-> 1, text |-> <<"a", "b", "C", "D">>],
          [text |-> <<"E">>]}

HighlightLists == UNION {[1..n -> Highlights] : n \in 0..MaxHighlights}

ProviderResults ==
    {[expert_indicators |-> l, perceptual_tip |-> "tip"] :
        l \in IndicatorLists}
    \cup {None}

\* The request as AnswerViewSet.evidence_link receives it, for a question
\* that exists, with the answer the provider is about to give.
EvidenceRequest(user_highlights, result) ==
    [action |-> "evidence_link", user |-> "alice",
     data |-> [vignette |-> Vignette, user_highlights |-> user_highlights,
               result |-> result]]

NoResponse == [status |-> 0, data |-> None]

\* AnswerViewSet.evidence_link: the request is answered.
evidence_link ==
    /\ request.action = "evidence_link"
    /\ response = NoResponse
    /\ response' =
         [status |-> 200,
          data |-> analyze_evidence_link(request.data.vignette,
                                         request.data.user_highlights,
                                         request.data.result)]
    /\ generation_calls' = 1
    /\ UNCHANGED <<sessions, next_id, recency, userprofile, request, pending,
                   payment_vars>>

InitEvidence ==
    /\ sessions = <<>>
    /\ next_id = 1
    /\ recency = <<>>
    /\ userprofile = [u \in Users |-> [is_paid |-> u = "alice"]]
    /\ \E h \in HighlightLists, r \in ProviderResults :
          request = EvidenceRequest(h, r)
    /\ response = NoResponse
    /\ generation_calls = 0
    /\ pending = [slot \in Slots |-> Idle]
    /\ stripe_sessions = <<>>
    /\ fulfilments = <<>>
    /\ library = <<>>

NextEvidence == evidence_link

SpecEvidence == InitEvidence /\ [][NextEvidence]_vars

(***************************************************************************)
(* Full case-study generation (CaseStudyViewSet.generate and .prefetch).   *)
(* The provider's answer is the environment's choice; every INSERT is its  *)
(* own statement (no transaction spans the handler), and the store turns   *)
(* down a row that breaks a constraint of models.py.                       *)
(***************************************************************************)
\* Questions in one answer of the provider.
MaxQuestions == 2

\* The domain tag for culture, equity and justice (models.py:8).
CEJ_JUSTICE == "CEJ_JUSTICE"

\* Entries of a question's "distractors": well-formed ones, one without a
\* label, and a label given twice.
DistractorA == [label |-> "A", text |-> "option"]

DistractorB == [label |-> "B", text |-> "option"]

DistractorLists ==
    {<<>>, <<DistractorA, DistractorB>>, <<DistractorA, DistractorA>>,
     <<DistractorA, [text |-> "option"]>>}

\* Entries of "questions": with a stem and any of the distractor lists, or
\* without a stem.
QuestionData ==
    {[stem |-> "stem", domain |-> d, correct_label |-> "A",
      correct_rationale |-> "why", distractors |-> ds] :
        d \in {CEJ_JUSTICE, "OT_EXP"}, ds \in DistractorLists}
    \cup {[domain |-> d, correct_label |-> "A", correct_rationale |-> "why",
           distractors |-> <<DistractorA>>] : d \in {CEJ_JUSTICE, "OT_EXP"}}

QuestionLists ==
    UNION {[1..n -> QuestionData] : n \in 0..MaxQuestions}

\* What generate_full_case_study and json.loads make of the provider's
\* answer: nothing (None or ""), text that is no JSON, or a parsed object.
CaseOutcomes ==
    {[kind |-> "empty"], [kind |-> "invalid"],
     [kind |-> "json", data |-> [title |-> "case"]]}
    \cup {[kind |-> "json", data |-> [title |-> "case", questions |-> qs]] :
            qs \in QuestionLists}

\* Every statement commits on its own: the project's settings turn on
\* neither ATOMIC_REQUESTS nor a transaction around the handlers.
Autocommit == TRUE

\* What a handler that ends leaves in the store: with autocommit, every row
\* it inserted.
Committed(before, done) ==
    IF done.raised /\ ~Autocommit THEN before ELSE done.db

\* The rows of one table.
Table(db, name) == SelectSeq(db, LAMBDA r : r.table = name)

\* case-<uuid>: an id no stored case has.
NewCaseId(db) == Len(Table(db, "CaseStudy")) + 1

CaseStudyRow(case_id, data, tag) ==
    [table |-> "CaseStudy", id |-> case_id,
     title |-> Get(data, "title", "Untitled Case"), tag |-> tag]

\* store_memory(key=generated_case:<id>, ...): it swallows its own errors.
AgentMemoryRow(case_id) == [table |-> "AgentMemory", key |-> case_id]

QuestionRow(case_id, idx, q_data) ==
    [table |-> "Question", id |-> <<case_id, idx>>, case_study |-> case_id,
     domain |-> Get(q_data, "domain", "OT_EXP"),
     stem |-> Get(q_data, "stem", None)]

DistractorRow(question_id, d_data) ==
    [table |-> "Distractor", question |-> question_id,
     label |-> Get(d_data, "label", None),
     text |-> Get(d_data, "text", None)]

\* Question.stem is NOT NULL (models.py:51): q_data.get('stem') is None.
QuestionRejected(q_data) == "stem" \notin DOMAIN q_data

\* Distractor.label and .text are NOT NULL, and (question, label) is unique
\* (models.py:62-67).
DistractorRejected(db, question_id, d_data) ==
    \/ "label" \notin DOMAIN d_data
    \/ "text" \notin DOMAIN d_data
    \/ \E i \in DOMAIN db :
          /\ db[i].table = "Distractor"
          /\ db[i].question = question_id
          /\ db[i].label = d_data.label

\* The loop over q_data['distractors'] (views.py:262-268): the store after
\* it, and whether an INSERT raised.
RECURSIVE InsertDistractors(_, _, _)
InsertDistractors(db, question_id, distractors) ==
    IF distractors = <<>> THEN [db |-> db, raised |-> FALSE]
    ELSE IF DistractorRejected(db, question_id, Head(distractors))
    THEN [db |-> db, raised |-> TRUE]
    ELSE InsertDistractors(
             Append(db, DistractorRow(question_id, Head(distractors))),
             question_id, Tail(distractors))

RECURSIVE InsertQuestionsSavepoint(_, _, _, _)
InsertQuestionsSavepoint(db, case_id, questions, idx) ==
    IF idx > Len(questions) THEN [db |-> db, raised |-> FALSE]
    ELSE IF QuestionRejected(questions[idx])
    THEN [db |-> db, raised |-> TRUE]
    ELSE LET question == QuestionRow(case_id, idx, questions[idx])
             done     == InsertDistractors(
                             Append(db, question), question.id,
                             Get(questions[idx], "distractors", <<>>))
         IN  IF done.raised THEN [db |-> db, raised |-> TRUE]
             ELSE InsertQuestionsSavepoint(done.db, case_id, questions,
                                           idx + 1)

\* The loop over data['questions'] from its idx-th entry on
\* (views.py:251-268).
RECURSIVE InsertQuestions(_, _, _, _)
InsertQuestions(db, case_id, questions, idx) ==
    IF idx > Len(questions) THEN [db |-> db, raised |-> FALSE]
    ELSE IF QuestionRejected(questions[idx])
    THEN [db |-> db, raised |-> TRUE]
    ELSE LET question == QuestionRow(case_id, idx, questions[idx])
             done     == InsertDistractors(
                             Append(db, question), question.id,
                             Get(questions[idx], "distractors", <<>>))
         IN  IF done.raised THEN done
             ELSE InsertQuestions(done.db, case_id, questions, idx + 1)

\* CaseStudyViewSet.generate.
generate(outcome) ==
    /\ request.action = "generate"
    /\ response.status = 0
    /\ request.outcome = outcome
    /\ generation_calls' = 1
    /\ IF outcome.kind = "empty"
       THEN /\ response' = [status |-> 503,
                            data |-> [error |-> "AI Generation failed"]]
            /\ UNCHANGED library
       ELSE IF outcome.kind = "invalid"
       THEN /\ response' = [status |-> 500,
                            data |-> [error |-> "JSONDecodeError"]]
            /\ UNCHANGED library
       ELSE LET data    == outcome.data
                case_id == NewCaseId(library)
                case    == CaseStudyRow(case_id, data, "AI-Generated")
                stored  == <<case, AgentMemoryRow(case_id)>>
                done    == InsertQuestions(library \o stored, case_id,
                                           Get(data, "questions", <<>>), 1)
            IN  /\ library' = Committed(library, done)
                /\ response' =
                     IF done.raised
                     THEN [status |-> 500,
                           data |-> [error |-> "IntegrityError"]]
                     ELSE [status |-> 201, data |-> [id |-> case_id]]
    /\ UNCHANGED <<sessions, next_id, recency, userprofile, request, pending,
                   stripe_sessions, fulfilments>>

\* CaseStudyViewSet.prefetch: the same writes without the memory row.
case_prefetch(outcome) ==
    /\ request.action = "case_prefetch"
    /\ response.status = 0
    /\ request.outcome = outcome
    /\ generation_calls' = 1
    /\ IF outcome.kind = "empty"
       THEN /\ response' = [status |-> 503,
                            data |-> [status |-> "failed"]]
            /\ UNCHANGED library
       ELSE IF outcome.kind = "invalid"
       THEN /\ response' = [status |-> 500,
                            data |-> [status |-> "failed"]]
            /\ UNCHANGED library
       ELSE LET data    == outcome.data
                case_id == NewCaseId(library)
                case    == CaseStudyRow(case_id, data, "Prefetched")
                done    == InsertQuestions(library \o <<case>>, case_id,
                                           Get(data, "questions", <<>>), 1)
            IN  /\ library' = Committed(library, done)
                /\ response' =
                     IF done.raised
                     THEN [status |-> 500, data |-> [status |-> "failed"]]
                     ELSE [status |-> 201,
                           data |-> [status |-> "success",
                                     case_id |-> case_id]]
    /\ UNCHANGED <<sessions, next_id, recency, userprofile, request, pending,
                   stripe_sessions, fulfilments>>

\* A request to one of the two handlers, with the answer the provider will
\* give it.
InitCase ==
    /\ sessions = <<>>
    /\ next_id = 1
    /\ recency = <<>>
    /\ userprofile = [u \in Users |-> [is_paid |-> u = "alice"]]
    /\ \E a \in {"generate", "case_prefetch"}, o \in CaseOutcomes :
          request = [action |-> a, user |-> "anon", outcome |-> o]
    /\ response = [status |-> 0, data |-> None]
    /\ generation_calls = 0
    /\ pending = [slot \in Slots |-> Idle]
    /\ stripe_sessions = <<>>
    /\ fulfilments = <<>>
    /\ library = <<>>

NextCase ==
    \/ \E o \in CaseOutcomes : generate(o)
    \/ \E o \in CaseOutcomes : case_prefetch(o)

SpecCase == InitCase /\ [][NextCase]_vars

(***************************************************************************)
(* Properties.                                                             *)
(***************************************************************************)
\* The request handled last reached its handler (the permission check let
\* it through) and named an existing session.
Handled(action) == request.action = action /\ response.status # 403

HandledNext(action) == request'.action = action /\ response'.status # 403

\* Case-insensitive equality of two labels, by lower-casing both.
CaseFold(s) ==
    CASE s = "A" -> "a" [] s = "B" -> "b" [] s = "C" -> "c" [] s = "D" -> "d"
      [] OTHER -> s

EqualIgnoringCase(a, b) == CaseFold(a) = CaseFold(b)

\* C1: a successful submit grades by comparing the selected label with the
\* current question's correct_label ignoring letter case, and correct_count
\* grows by exactly 1 when the answer is correct and not at all otherwise.
C1_SubmitGradesIgnoringCase ==
    [][(HandledNext("submit") /\ response'.status = 200) =>
         LET sid      == request'.data.session_id
             before   == sessions[sid]
             after    == sessions'[sid]
             selected == Get(request'.data, "selected_label", "")
             correct  == before.current_question_data.correct_label
             entry    == after.session_history[Len(after.session_history)]
         IN  /\ entry.is_correct = EqualIgnoringCase(selected, correct)
             /\ after.correct_count =
                  before.correct_count + (IF entry.is_correct THEN 1 ELSE 0)
             /\ before.mode = "practice" =>
                  response'.data.feedback.is_correct = entry.is_correct
             /\ response'.data.progress.correct = after.correct_count]_vars

\* C1 witness: "a" submitted for a question whose correct label is "A" was
\* graded correct and counted.
C1_Witness ==
    /\ Handled("submit") /\ response.status = 200
    /\ Get(request.data, "selected_label", "") = "a"
    /\ LET s == sessions[request.data.session_id] IN
       /\ s.session_history[Len(s.session_history)].correct_label = "A"
       /\ s.session_history[Len(s.session_history)].is_correct
       /\ s.correct_count = 1

\* round(100 * correct / total) with Python's ties-to-even.
RoundPercent(correct, total) ==
    LET q == (100 * correct) \div total
        r == (100 * correct) % total
    IN  IF 2 * r < total THEN q
        ELSE IF 2 * r > total THEN q + 1
        ELSE IF q % 2 = 0 THEN q ELSE q + 1

\* C2: next on a session at its last question (total_questions one of the
\* allowed values) deactivates it, sets completed_at, issues no question and
\* returns the percentage correct_count / total_questions * 100 rounded to
\* the nearest integer.
C2_FinalPercentageIsRounded ==
    (/\ Handled("next") /\ response.status = 200
     /\ response.data.is_complete
     /\ sessions[request.data.session_id].total_questions \in AllowedTotals)
    => LET s == sessions[request.data.session_id] IN
       /\ ~s.is_active
       /\ s.completed_at # None
       /\ "question" \notin DOMAIN response.data
       /\ generation_calls = 0
       /\ response.data.final_score.percentage =
            RoundPercent(s.correct_count, s.total_questions)

\* C3: a session is deactivated, and its completed_at set, only by a next
\* call made when current_question has reached total_questions; a submit on
\* the last question reports is_complete while the session stays active.
C3_CompletedOnlyInsideNext ==
    [][/\ \A sid \in DOMAIN sessions \cap DOMAIN sessions' :
            (\/ sessions[sid].is_active /\ ~sessions'[sid].is_active
             \/ sessions[sid].completed_at # sessions'[sid].completed_at)
            => /\ HandledNext("next")
               /\ request'.data.session_id = sid
               /\ sessions[sid].current_question
                    >= sessions[sid].total_questions
               /\ ~sessions'[sid].is_active
               /\ sessions'[sid].completed_at = Now
       /\ (HandledNext("submit") /\ response'.status = 200) =>
            LET sid == request'.data.session_id IN
            /\ response'.data.is_complete =
                 (sessions[sid].current_question
                    >= sessions[sid].total_questions)
            /\ sessions'[sid].is_active
            /\ sessions'[sid].completed_at = None]_vars

\* C3 witness: a session whose last question was submitted (it stayed
\* active then) has been completed by next.
C3_Witness ==
    /\ Handled("next") /\ response.status = 200
    /\ LET s == sessions[request.data.session_id] IN
       /\ ~s.is_active /\ s.completed_at = Now
       /\ \E i \in DOMAIN s.session_history :
             s.session_history[i].question_number = s.total_questions

\* C4: a successful submit returns feedback null in exam mode and a
\* non-null feedback in practice mode.
C4_FeedbackOnlyInPractice ==
    (Handled("submit") /\ response.status = 200) =>
       LET s == sessions[request.data.session_id] IN
       /\ s.mode = "exam" => response.data.feedback = None
       /\ s.mode = "practice" => response.data.feedback # None

\* C4 witness: an exam-mode submit answered without feedback.
C4_Witness ==
    /\ Handled("submit") /\ response.status = 200
    /\ sessions[request.data.session_id].mode = "exam"
    /\ response.data.feedback = None

\* C5: in exam mode, submits from the same session state that differ only
\* in the selected label get identical responses.
C5_ExamResponseHidesCorrectness ==
    \A sid \in DOMAIN sessions :
       (/\ sessions[sid].is_active
        /\ sessions[sid].mode = "exam"
        /\ Truthy(sessions[sid].current_question_data))
       => \A d1, d2 \in {d \in SubmitBodies : d.session_id = sid} :
             SubmitOutcome(sessions[sid], d1).response
               = SubmitOutcome(sessions[sid], d2).response

\* C6: prefetch on an active session whose next_question_data is populated
\* makes no generation call, answers already_prefetched and changes nothing.
C6_PrefetchKeepsPrefetched ==
    [][(/\ HandledNext("prefetch")
        /\ ExistsActive(request'.data.session_id)
        /\ Truthy(sessions[request'.data.session_id].next_question_data))
       => /\ generation_calls' = 0
          /\ response'.status = 200
          /\ response'.data.status = "already_prefetched"
          /\ sessions' = sessions
          /\ recency' = recency]_vars

\* C6 witness: a prefetch answered already_prefetched without a generation
\* call, the slot being populated.
C6_Witness ==
    /\ Handled("prefetch") /\ response.status = 200
    /\ response.data.status = "already_prefetched"
    /\ generation_calls = 0
    /\ Truthy(sessions[request.data.session_id].next_question_data)

\* C7: next on an active session with questions left takes the prefetched
\* question when there is one (no generation call, counter + 1, slot empty
\* afterwards) and generates synchronously when there is none.
C7_NextConsumesPrefetch ==
    [][(/\ HandledNext("next")
        /\ ExistsActive(request'.data.session_id)
        /\ sessions[request'.data.session_id].current_question
             < sessions[request'.data.session_id].total_questions)
       => LET sid    == request'.data.session_id
              before == sessions[sid]
              after  == sessions'[sid]
          IN  IF Truthy(before.next_question_data)
              THEN /\ generation_calls' = 0
                   /\ response'.status = 200
                   /\ after.current_question = before.current_question + 1
                   /\ after.current_question_data = before.next_question_data
                   /\ after.next_question_data = None
                   /\ response'.data.question =
                        PublicQuestion(before.next_question_data)
              ELSE /\ generation_calls' = 1
                   /\ response'.status = 200 =>
                        /\ after.current_question
                             = before.current_question + 1
                        /\ response'.data.question =
                             PublicQuestion(after.current_question_data)]_vars

\* C7 witness: next served the prefetched question without generating.
C7_Witness ==
    /\ Handled("next") /\ response.status = 200
    /\ ~response.data.is_complete
    /\ generation_calls = 0
    /\ sessions[request.data.session_id].next_question_data = None
    /\ sessions[request.data.session_id].current_question = 2

\* C8 as claimed: after next fails to generate, the stored current_question
\* is one greater than before and current_question_data is the old one.
C8_FailedNextKeepsIncrement ==
    [][(HandledNext("next") /\ response'.status = 503) =>
         LET sid == request'.data.session_id IN
         /\ sessions'[sid].current_question
              = sessions[sid].current_question + 1
         /\ sessions'[sid].current_question_data
              = sessions[sid].current_question_data]_vars

\* C8 amended: after next fails to generate, the stored session is the one
\* before the call: current_question is not incremented (the increment was
\* made on the in-memory object only, which is never saved) and
\* current_question_data still holds the previous question.
C8_FailedNextStoresNothing ==
    [][(HandledNext("next") /\ response'.status = 503) =>
         /\ generation_calls' = 1
         /\ sessions' = sessions
         /\ recency' = recency]_vars

\* C8 witness: a next answered service-unavailable on a session still at
\* question 1 with its question.
C8_Witness ==
    /\ Handled("next") /\ response.status = 503
    /\ sessions[request.data.session_id].current_question = 1
    /\ Truthy(sessions[request.data.session_id].current_question_data)

\* C9: when generation of question 1 fails, start answers
\* service-unavailable and leaves the stored sessions as they were before
\* the call; no active session without a question is ever stored.
C9_FailedStartLeavesNoRow ==
    [][/\ (HandledNext("start") /\ response'.status = 503) =>
            /\ sessions' = sessions
            /\ recency' = recency
       /\ HandledNext("start") => response'.status \in {201, 503}
       /\ \A sid \in DOMAIN sessions' :
             sessions'[sid].is_active =>
                Truthy(sessions'[sid].current_question_data)]_vars

\* C9 witness: a start answered service-unavailable, its row gone.
C9_Witness ==
    /\ Handled("start") /\ response.status = 503
    /\ next_id = 2
    /\ sessions = <<>>

\* C10: a practice-mode start (mode "practice" or omitted) stores the
\* requested total_questions when it is 10, 25 or 50, and 10 otherwise.
C10_PracticeTotalNormalised ==
    (/\ Handled("start") /\ response.status = 201
     /\ ("mode" \notin DOMAIN request.data \/ request.data.mode = "practice"))
    => LET d == request.data
           s == sessions[response.data.session_id]
       IN  /\ s.mode = "practice"
           /\ s.total_questions =
                IF "total_questions" \in DOMAIN d
                   /\ d.total_questions \in {10, 25, 50}
                THEN d.total_questions ELSE 10
           /\ response.data.total_questions = s.total_questions

\* C10 witness: a practice start asking for 7 questions got a session of 10.
C10_Witness ==
    /\ Handled("start") /\ response.status = 201
    /\ "mode" \notin DOMAIN request.data
    /\ "total_questions" \in DOMAIN request.data
    /\ request.data.total_questions = 7
    /\ sessions[response.data.session_id].total_questions = 10

\* C11: every stored session has a total_questions in the set fixed for its
\* mode: 10, 25 or 50 for a practice session, 100 or 200 for an exam
\* session, whatever total_questions the start request carried.
C11_StoredTotalInModeSet ==
    \A sid \in DOMAIN sessions :
        /\ sessions[sid].mode = "practice" =>
              sessions[sid].total_questions \in {10, 25, 50}
        /\ sessions[sid].mode = "exam" =>
              sessions[sid].total_questions \in {100, 200}

\* The fields of a generated question that hold its answer.
AnswerFields == {"correct_label", "correct_rationale", "incorrect_rationales"}

\* The session a handled start, next or get_active answered about.
AnsweredSession ==
    IF request.action = "next" THEN request.data.session_id
    ELSE response.data.session_id

\* C12: a successful start returns current_question = 1, and the responses
\* of start, next and get_active carry of the current question only its
\* stem and options; the answer fields of current_question_data appear in
\* none of them.
C12_ResponsesHideAnswer ==
    (request.action \in {"start", "next", "get_active"}
     /\ response.status # 403)
    => /\ (request.action = "start" /\ response.status = 201) =>
             /\ response.data.current_question = 1
             /\ "question" \in DOMAIN response.data
       /\ DOMAIN response.data \cap AnswerFields = {}
       /\ "question" \in DOMAIN response.data =>
             LET stored == sessions[AnsweredSession].current_question_data
             IN  /\ DOMAIN response.data.question = {"stem", "options"}
                 /\ response.data.question.stem = stored.stem
                 /\ response.data.question.options = stored.options

\* C12 witness: get_active answered with the question of a session whose
\* stored question holds its answer.
C12_Witness ==
    /\ Handled("get_active") /\ response.status = 200
    /\ "question" \in DOMAIN response.data
    /\ sessions[AnsweredSession].current_question_data.correct_label = "b"
    /\ sessions[AnsweredSession].current_question = 2

\* The user has no paid access: not authenticated, without a profile, or
\* with a profile whose is_paid is false.
NotPaid(user) ==
    \/ user \notin Authenticated
    \/ user \notin DOMAIN userprofile
    \/ ~userprofile[user].is_paid

Position(sid) == CHOOSE i \in DOMAIN recency : recency[i] = sid

\* The active sessions a user owns.
ActiveOf(user) ==
    {sid \in DOMAIN sessions :
        sessions[sid].user = user /\ sessions[sid].is_active}

\* get_active answered with the user's most recently touched active
\* session, or with an empty result when the user has none.
GetActiveSelection ==
    LET mine == ActiveOf(request.user) IN
    IF mine = {} THEN response.data = None
    ELSE /\ response.data # None
         /\ response.data.session_id \in mine
         /\ \A other \in mine :
               Position(response.data.session_id) <= Position(other)

\* A step of get_active: it answers and leaves the store and the requests
\* in flight alone.
GetActiveStep ==
    /\ request'.action = "get_active"
    /\ sessions' = sessions /\ recency' = recency /\ pending' = pending

\* C15: get_active returns, among the sessions owned by the requesting
\* user with is_active true, the one most recently touched, and an empty
\* result when the user has none; it never returns a completed session or
\* a session of another user, and it answers without error for every
\* session it can select.
C15_GetActiveLatestWithoutError ==
    [][GetActiveStep =>
          /\ response'.status = 200
          /\ GetActiveSelection']_vars

\* The next request in the slot is answered in this step with a question.
NextIssues(slot) ==
    /\ Running(slot, "next")
    /\ pending'[slot].state = "done"
    /\ pending'[slot].status = 200
    /\ pending'[slot].issued > 0

\* C16: two next requests for the same active session that overlap in time
\* can both read the same current_question and both complete successfully,
\* after which the stored current_question has advanced by only one
\* although two questions were issued.  Nothing serialises the requests:
\* each stores the current_question it read plus one, whatever the row
\* holds by then, and issues the question of that number.
C16_OverlappingNextStoresReadPlusOne ==
    [][\A slot \in Slots :
          NextIssues(slot) =>
             LET read == pending[slot].session.current_question
                 sid  == pending[slot].session_id
             IN  /\ pending'[slot].issued = read + 1
                 /\ sessions'[sid].current_question = read + 1]_vars

\* C16 witness: two answered next requests read the same current_question
\* of the same session, each was issued a question, and the stored counter
\* is one past what they read.
C16_Witness ==
    \E a, b \in Slots :
        /\ a # b
        /\ pending[a].state = "done" /\ pending[b].state = "done"
        /\ pending[a].action = "next" /\ pending[b].action = "next"
        /\ pending[a].session_id = pending[b].session_id
        /\ pending[a].read = pending[b].read
        /\ pending[a].status = 200 /\ pending[b].status = 200
        /\ pending[a].issued = pending[a].read + 1
        /\ pending[b].issued = pending[b].read + 1
        /\ sessions[pending[a].session_id].current_question
              = pending[a].read + 1

\* A step of the webhook handler; request' holds what was delivered.
WebhookStep ==
    request'.action = "webhook" /\ stripe_sessions' = stripe_sessions

\* C17: the webhook handler changes payment state only for verified
\* checkout-completed events: a webhook whose signature verification fails
\* is rejected with an error and changes no profile; an event of any other
\* type changes no profile; a verified checkout-completed event carrying
\* user_id and tier metadata sets that user's is_paid to true and its
\* subscription tier to the given tier, and changes no other profile.
C17_WebhookChangesOnlyOnVerifiedCheckout ==
    [][WebhookStep =>
          LET d        == request'.data
              metadata == d.object.metadata
              verified == d.signature = "verified"
              checkout == d.type = "checkout.session.completed"
          IN  /\ ~verified =>
                    /\ response'.status = 400
                    /\ userprofile' = userprofile
                    /\ fulfilments' = fulfilments
              /\ ~checkout => userprofile' = userprofile
              /\ (/\ verified /\ checkout
                  /\ "user_id" \in DOMAIN metadata
                  /\ "tier" \in DOMAIN metadata) =>
                    /\ DOMAIN userprofile' = DOMAIN userprofile
                    /\ userprofile'[metadata.user_id].is_paid
                    /\ userprofile'[metadata.user_id].subscription_tier
                          = metadata.tier
                    /\ \A u \in DOMAIN userprofile \ {metadata.user_id} :
                          userprofile'[u] = userprofile[u]
              /\ userprofile' # userprofile => verified /\ checkout]_vars

\* C17 witness: a verified checkout-completed event for carol's checkout
\* was handled and carol is paid, on the tier of the checkout.
C17_Witness ==
    /\ request.action = "webhook"
    /\ request.data.signature = "verified"
    /\ request.data.type = "checkout.session.completed"
    /\ request.data.object.metadata = [user_id |-> "carol", tier |-> "beta"]
    /\ response.status = 200
    /\ userprofile["carol"].is_paid
    /\ userprofile["carol"].subscription_tier = "beta"
    /\ ~userprofile["bob"].is_paid

\* A step of the manual sync.
SyncStep == request'.action = "sync" /\ stripe_sessions' = stripe_sessions

\* The runs of fulfill_order the sync made for a user.
SyncFulfilments(log, user) ==
    {i \in DOMAIN log : log[i].path = "sync" /\ log[i].user = user}

\* C18: the manual payment sync is idempotent: for a user whose is_paid is
\* already true, verify_payment_status runs no fulfilment (no profile
\* change, no notification) and reports updated = false; over any number
\* of repeated syncs for one user the fulfilment routine runs at most once.
C18_SyncIdempotent ==
    [][/\ (/\ SyncStep
           /\ HasProfile(request'.user)
           /\ userprofile[request'.user].is_paid) =>
             /\ userprofile' = userprofile
             /\ fulfilments' = fulfilments
             /\ response'.data.updated = FALSE
       /\ \A u \in Authenticated :
             Cardinality(SyncFulfilments(fulfilments', u)) <= 1]_vars

\* C18 witness: a sync fulfilled bob's paid checkout, and a later sync by
\* bob reported no update.
C18_Witness ==
    /\ request.action = "sync" /\ request.user = "bob"
    /\ response.status = 200 /\ response.data.updated = FALSE
    /\ response.data.is_paid
    /\ SyncFulfilments(fulfilments, "bob") # {}
    /\ \E i \in DOMAIN stripe_sessions :
          /\ stripe_sessions[i].metadata.user_id = "bob"
          /\ stripe_sessions[i].payment_status = "paid"

\* An evidence-link request was answered from a parsed provider answer.
EvidenceAnswered ==
    /\ request.action = "evidence_link"
    /\ response.status = 200
    /\ request.data.result # None

\* The indicators of the provider's answer whose text stands verbatim in
\* the vignette.
LocatedIndicators ==
    LET inds == request.data.result.expert_indicators IN
    {k \in DOMAIN inds :
        \E i \in 0..Len(request.data.vignette) :
            OccursAt(request.data.vignette, inds[k].text, i)}

\* C19: the evidence-link score equals floor(matched_count * 100 / total)
\* where total is the number of expert indicators located in the vignette,
\* for every total > 0 and every matched_count in 0..total, and equals 0
\* with no error when total is 0; an indicator whose text is not found
\* verbatim in the vignette is counted neither in total nor in
\* matched_count.
C19_ScoreIsFloorOfPercentage ==
    EvidenceAnswered =>
        LET total == Cardinality(LocatedIndicators)
            d     == response.data
        IN  /\ Len(d.expert_highlights) = total
            /\ d.matched_count \in 0..total
            /\ Len(d.missed_indicators) = total - d.matched_count
            /\ d.score = IF total = 0 THEN 0
                         ELSE (d.matched_count * 100) \div total

\* Two half-open intervals share a position.
Overlap(s1, e1, s2, e2) == s1 < e2 /\ s2 < e1

\* C20: an expert indicator located at [s, e) counts as matched exactly
\* when some learner highlight's [start, end) interval overlaps [s, e) or
\* the indicator's text is contained, ignoring case, in that highlight's
\* text, for every relative position of the two intervals, including a
\* highlight lying strictly inside the indicator's span and a highlight
\* that strictly contains it.
C20_MatchedIffOverlapOrContained ==
    EvidenceAnswered =>
        LET d  == response.data
            hl == request.data.user_highlights
        IN  \A k \in DOMAIN d.expert_highlights :
               LET eh == d.expert_highlights[k] IN
               ~InList(eh, d.missed_indicators)
               <=> \E j \in DOMAIN hl :
                      \/ Overlap(Get(hl[j], "start", 0), Get(hl[j], "end", 0),
                                 eh.start, eh.end)
                      \/ In(Lower(eh.text), Lower(Get(hl[j], "text", <<>>)))

\* A request to full case-study generation has been answered.
CaseHandled ==
    request.action \in {"generate", "case_prefetch"} /\ response.status # 0

\* C21: every case study that full case-study generation persists as a
\* valid case (the 201 answer) has at least one question whose domain is
\* CEJ_JUSTICE, whatever parsable answer the provider gave.
C21_StoredCaseHasJusticeQuestion ==
    (CaseHandled /\ response.status = 201) =>
        \A i \in DOMAIN library :
            library[i].table = "CaseStudy" =>
                \E j \in DOMAIN library :
                    /\ library[j].table = "Question"
                    /\ library[j].case_study = library[i].id
                    /\ library[j].domain = CEJ_JUSTICE

\* C22: a question is graded once: session_history never holds two entries
\* with the same question_number (a submit for a question already graded
\* is rejected until next has issued another one).
C22_OneHistoryEntryPerQuestion ==
    \A sid \in DOMAIN sessions :
        LET history == sessions[sid].session_history IN
        \A i, j \in DOMAIN history :
            i # j => history[i].question_number # history[j].question_number

\* The current question of the session has an entry in session_history.
Graded(session) ==
    \E i \in DOMAIN session.session_history :
        session.session_history[i].question_number = session.current_question

\* A step of next on the active session sid.
NextStepOn(sid) ==
    /\ request'.action = "next"
    /\ response'.status # 403
    /\ request'.data.session_id = sid
    /\ sid \in DOMAIN sessions
    /\ sessions[sid].is_active

\* C23: next takes a session forward only from the graded state: a next on
\* an active session whose current question has no submitted answer leaves
\* the session as it is (no new question, no completion).
C23_NextOnlyFromGraded ==
    [][\A sid \in SessionIds :
          (NextStepOn(sid) /\ ~Graded(sessions[sid])) =>
              /\ sessions'[sid].current_question
                     = sessions[sid].current_question
              /\ sessions'[sid].is_active]_vars

\* A step of the submit handler (start is the only other handler of the
\* specification that leaves `request` alone, and it moves `pending`).
SubmitStep == request'.action = "submit" /\ pending' = pending

\* The error the claim expects of submit for the session named, None when
\* the session is active and holds a question.
ExpectedSubmitError(sid) ==
    IF sid \notin DOMAIN sessions
    THEN [status |-> 404, data |-> [error |-> "Session not found"]]
    ELSE IF ~sessions[sid].is_active
    THEN [status |-> 400, data |-> [error |-> "Session is already completed"]]
    ELSE IF sessions[sid].current_question_data = None
    THEN [status |-> 400, data |-> [error |-> "No active question"]]
    ELSE None

\* C24: submit with an unknown session id, a completed session or a session
\* without current_question_data answers not found, already completed and
\* no active question respectively, and leaves every session's
\* correct_count, topics_covered and session_history as they were.
C24_SubmitRequiresActiveQuestion ==
    [][\A sid \in SessionIds :
          (SubmitStep /\ request'.data.session_id = sid
             /\ ExpectedSubmitError(sid) # None) =>
              /\ response' = ExpectedSubmitError(sid)
              /\ DOMAIN sessions' = DOMAIN sessions
              /\ \A other \in DOMAIN sessions :
                    /\ sessions'[other].correct_count
                           = sessions[other].correct_count
                    /\ sessions'[other].topics_covered
                           = sessions[other].topics_covered
                    /\ sessions'[other].session_history
                           = sessions[other].session_history]_vars

\* A submit was refused for want of a question: start had created the row
\* and was still waiting for the first question.
C24_Witness ==
    /\ request.action = "submit"
    /\ response = [status |-> 400, data |-> [error |-> "No active question"]]
    /\ \E sid \in DOMAIN sessions :
          /\ request.data.session_id = sid
          /\ sessions[sid].is_active
          /\ sessions[sid].current_question_data = None

\* The writes of one question in the order of the claim: the Question row,
\* then its Distractor rows; `null` marks a row with a required column
\* missing.
QuestionWrites(case_id, idx, q_data) ==
    LET question    == QuestionRow(case_id, idx, q_data)
        distractors == Get(q_data, "distractors", <<>>)
    IN  <<[row |-> question, null |-> "stem" \notin DOMAIN q_data]>>
        \o [k \in DOMAIN distractors |->
              [row  |-> DistractorRow(question.id, distractors[k]),
               null |-> \/ "label" \notin DOMAIN distractors[k]
                        \/ "text" \notin DOMAIN distractors[k]]]

RECURSIVE Flatten(_)
Flatten(seqs) ==
    IF seqs = <<>> THEN <<>> ELSE Head(seqs) \o Flatten(Tail(seqs))

\* All the writes of the request handled, in the order of the claim:
\* CaseStudy, then each Question followed by its Distractors.
ClaimedWrites ==
    LET data      == request.outcome.data
        questions == Get(data, "questions", <<>>)
        tag       == IF request.action = "generate" THEN "AI-Generated"
                     ELSE "Prefetched"
    IN  <<[row |-> CaseStudyRow(1, data, tag), null |-> FALSE]>>
        \o Flatten([idx \in DOMAIN questions |->
                       QuestionWrites(1, idx, questions[idx])])

\* The k-th write cannot be stored after the ones before it: a required
\* column is missing, or its (question, label) is taken.
WriteFails(writes, k) ==
    \/ writes[k].null
    \/ /\ writes[k].row.table = "Distractor"
       /\ \E j \in 1..(k - 1) :
             /\ writes[j].row.table = "Distractor"
             /\ ~writes[j].null
             /\ writes[j].row.question = writes[k].row.question
             /\ writes[j].row.label = writes[k].row.label

\* The case, question and distractor rows of the store, in INSERT order.
CaseRows == SelectSeq(library, LAMBDA r : r.table # "AgentMemory")

\* C25: full case-study persistence is not all-or-nothing: the rows are
\* written in the order CaseStudy, each Question, that Question's
\* Distractors, and when a write fails the handler answers with the error
\* while every row written before the failing one stays in the store.
C25_PartialWritesRemain ==
    (CaseHandled /\ request.outcome.kind = "json") =>
        LET writes == ClaimedWrites
            failed == {k \in DOMAIN writes : WriteFails(writes, k)}
            first  == IF failed = {} THEN Len(writes) + 1
                      ELSE CHOOSE k \in failed : \A j \in failed : k <= j
        IN  /\ CaseRows = [k \in 1..(first - 1) |-> writes[k].row]
            /\ (failed # {}) <=> response.status = 500
            /\ (failed = {}) <=> response.status = 201

\* A distractor was turned down after the case, a whole first question and
\* the second question's row and first distractor had been written: the
\* answer is the error and the rows are in the store.
C25_Witness ==
    /\ CaseHandled
    /\ response.status = 500
    /\ \E i \in DOMAIN library :
          /\ library[i].table = "Distractor"
          /\ library[i].question = <<1, 2>>

\* C26: every stored session has 1 <= current_question <= total_questions
\* and 0 <= correct_count <= current_question, so the percentages of submit
\* and of the final next are defined and lie in 0..100.
C26_CountersInRange ==
    \A sid \in DOMAIN sessions :
        LET session == sessions[sid] IN
        /\ 1 <= session.current_question
        /\ session.current_question <= session.total_questions
        /\ 0 <= session.correct_count
        /\ session.correct_count <= session.current_question

\* The prefetch waiting in `slot` gets its question and ends in this step;
\* it had read its session after start had stored the first question.
PrefetchFinishStep(slot) ==
    /\ Running(slot, "prefetch")
    /\ pending'[slot].state = "done"
    /\ pending[slot].session.current_question_data # None
    /\ pending[slot].session_id \in DOMAIN sessions

\* C27: a prefetch that overlaps a submit or a next of its session does not
\* undo it: when the prefetch ends, the stored session keeps the
\* correct_count, session_history and topics_covered a submit wrote and the
\* current_question and current_question_data a next wrote.
C27_PrefetchKeepsSubmitAndNext ==
    [][\A slot \in Slots :
          PrefetchFinishStep(slot) =>
              LET sid == pending[slot].session_id IN
              /\ sessions'[sid].correct_count = sessions[sid].correct_count
              /\ sessions'[sid].session_history
                     = sessions[sid].session_history
              /\ sessions'[sid].topics_covered
                     = sessions[sid].topics_covered
              /\ sessions'[sid].current_question
                     = sessions[sid].current_question
              /\ sessions'[sid].current_question_data
                     = sessions[sid].current_question_data]_vars

\* A start that was waiting for its first question ends in this step.
StartFinishStep ==
    \E slot \in Slots :
        Running(slot, "start") /\ pending'[slot].state = "done"

\* C28: completed is terminal: once a session's is_active is false, no
\* request, not even one that was in flight when the session completed,
\* makes it active again or changes its current_question, correct_count or
\* session_history (submit, next, prefetch, save_progress and pivot are the
\* requests of the claim: the end of a start is left aside).
C28_CompletedIsTerminal ==
    [][\A sid \in DOMAIN sessions :
          (~sessions[sid].is_active /\ ~StartFinishStep) =>
              /\ sid \in DOMAIN sessions'
              /\ ~sessions'[sid].is_active
              /\ sessions'[sid].current_question
                     = sessions[sid].current_question
              /\ sessions'[sid].correct_count = sessions[sid].correct_count
              /\ sessions'[sid].session_history
                     = sessions[sid].session_history]_vars

\* The request handled in this step names the session sid, which belongs
\* to another user than the one who sends it.
ForeignRequestStep(sid) ==
    /\ request'.action
           \in {"submit", "next", "prefetch", "pivot", "save_progress"}
    /\ request'.data.session_id = sid
    /\ sid \in DOMAIN sessions
    /\ sessions[sid].user # request'.user

\* C29: submit, next, prefetch, pivot and save_progress act only on the
\* sessions of the requesting user: a request that names another user's
\* session is rejected and leaves that session unchanged.
C29_OnlyOwnSessions ==
    [][\A sid \in SessionIds :
          ForeignRequestStep(sid) =>
              /\ response'.status \in {403, 404}
              /\ sessions' = sessions]_vars

\* The prefetch handled last answered that a prefetched question exists.
PrefetchClaimsQuestion ==
    /\ Handled("prefetch")
    /\ response.status = 200
    /\ response.data.status \in {"prefetched", "already_prefetched"}

\* C30: whenever prefetch answers prefetched or already_prefetched, the
\* session's next_question_data is populated; a failed generation leaves
\* the slot empty and is not answered with either status.
C30_PrefetchStatusMeansStored ==
    PrefetchClaimsQuestion =>
        /\ request.data.session_id \in DOMAIN sessions
        /\ Truthy(sessions[request.data.session_id].next_question_data)


====
